---- MODULE Spec2Model ----
(***************************************************************************)
(* MAGI: three persona cores deliberate on a question, each routed through *)
(* an ordered chain of Groq models under a live rate-limit tracker; their  *)
(* verdicts are reduced to one consensus outcome.                          *)
(*                                                                         *)
(* Texts are modelled by the attributes the code branches on: a length, a  *)
(* script-mixing flag, the number of markup characters, the model that     *)
(* produced them.  Percentages are floored to integers; every threshold    *)
(* the code compares them with is an integer, so the comparisons agree.    *)
(***************************************************************************)
EXTENDS Integers, Sequences, FiniteSets, TLC

\* ------------------------------------------------------------------------
\* Model identifiers and persona configuration (groq/personas.ts)
\* ------------------------------------------------------------------------

GPT_OSS_120B    == "openai/gpt-oss-120b"
KIMI_K2         == "moonshotai/kimi-k2-instruct"
KIMI_K2_0905    == "moonshotai/kimi-k2-instruct-0905"
LLAMA4_SCOUT    == "meta-llama/llama-4-scout-17b-16e-instruct"
LLAMA4_MAVERICK == "meta-llama/llama-4-maverick-17b-128e-instruct"
LLAMA33_70B     == "llama-3.3-70b-versatile"
LLAMA31_8B      == "llama-3.1-8b-instant"
QWEN3_32B       == "qwen/qwen3-32b"
COMPOUND        == "groq/compound"
COMPOUND_MINI   == "groq/compound-mini"

MODELS ==
  { GPT_OSS_120B, KIMI_K2, KIMI_K2_0905, LLAMA4_SCOUT, LLAMA4_MAVERICK,
    LLAMA33_70B, LLAMA31_8B, QWEN3_32B, COMPOUND, COMPOUND_MINI }

DATA_PROCESSING_MODEL == LLAMA4_SCOUT
EMERGENCY_MODEL       == LLAMA31_8B

MELCHIOR  == "MELCHIOR-1"
BALTHASAR == "BALTHASAR-2"
CASPER    == "CASPER-3"

\* The order in which deliberate() builds, launches and unwraps the cores.
PersonaOrder == << MELCHIOR, BALTHASAR, CASPER >>
Personas     == { MELCHIOR, BALTHASAR, CASPER }

getPersonaConfigs ==
  [ p \in Personas |->
      CASE p = MELCHIOR ->
             [ name |-> MELCHIOR, model |-> QWEN3_32B,
               fallbackModels |-> << LLAMA4_MAVERICK >>,
               emergencyModel |-> EMERGENCY_MODEL ]
        [] p = BALTHASAR ->
             [ name |-> BALTHASAR, model |-> LLAMA33_70B,
               fallbackModels |-> << GPT_OSS_120B >>,
               emergencyModel |-> EMERGENCY_MODEL ]
        [] OTHER ->
             [ name |-> CASPER, model |-> KIMI_K2,
               fallbackModels |-> << KIMI_K2_0905 >>,
               emergencyModel |-> EMERGENCY_MODEL ] ]

\* ------------------------------------------------------------------------
\* Consensus (magi/types.ts)
\* ------------------------------------------------------------------------

Verdicts == { "APPROVE", "DENY", "CONDITIONAL", "REFUSE" }
DeliberationResults == { "approved", "denied", "conditional", "noConsensus" }

\* Array.prototype.filter(...).length over a sequence of verdicts.
RECURSIVE CountOf(_, _)
CountOf(s, v) ==
  IF s = << >> THEN 0
  ELSE (IF Head(s) = v THEN 1 ELSE 0) + CountOf(Tail(s), v)

\* verdicts.filter((v) => v !== "REFUSE")
RECURSIVE FilterValid(_)
FilterValid(s) ==
  IF s = << >> THEN << >>
  ELSE IF Head(s) # "REFUSE"
         THEN << Head(s) >> \o FilterValid(Tail(s))
         ELSE FilterValid(Tail(s))

\* Variants of computeDeliberationResult that differ from the code: one
\* counts a CONDITIONAL vote toward denial, one keeps the REFUSE votes as if
\* they were denials, one lets melchior's vote break a split.
computeDeliberationResult_ConditionalDenies(m, b, c) ==
  LET valid        == FilterValid(<< m, b, c >>)
      approves     == CountOf(valid, "APPROVE")
      denies       == CountOf(valid, "DENY")
      conditionals == CountOf(valid, "CONDITIONAL")
  IN  IF approves >= 2 THEN "approved"
      ELSE IF denies + conditionals >= 2 /\ denies >= 1 THEN "denied"
      ELSE IF approves + conditionals >= 2 THEN "conditional"
      ELSE "noConsensus"

computeDeliberationResult_FirstVoteBreaksTie(m, b, c) ==
  LET valid        == FilterValid(<< m, b, c >>)
      approves     == CountOf(valid, "APPROVE")
      denies       == CountOf(valid, "DENY")
      conditionals == CountOf(valid, "CONDITIONAL")
  IN  IF approves >= 2 THEN "approved"
      ELSE IF denies >= 2 THEN "denied"
      ELSE IF approves + conditionals >= 2 THEN "conditional"
      ELSE IF m = "APPROVE" THEN "conditional"
      ELSE "noConsensus"

\* computeDeliberationResult, on the verdicts of melchior, balthasar, casper.
computeDeliberationResult(m, b, c) ==
  LET verdicts     == << m, b, c >>
      valid        == FilterValid(verdicts)
      approves     == CountOf(valid, "APPROVE")
      denies       == CountOf(valid, "DENY")
      conditionals == CountOf(valid, "CONDITIONAL")
  IN  IF approves >= 2 THEN "approved"
      ELSE IF denies >= 2 THEN "denied"
      ELSE IF approves + conditionals >= 2 THEN "conditional"
      ELSE "noConsensus"

\* ------------------------------------------------------------------------
\* Rate-limit tracker (groq/ratelimits.ts)
\* ------------------------------------------------------------------------

Infinity       == -1
RPM_WINDOW_MS  == 60000
TPD_WINDOW_MS  == 86400000
SKIP_THRESHOLD == 95

\* Known rate limits per model from the Groq docs.
MODEL_LIMITS ==
  [ m \in MODELS |->
      CASE m = GPT_OSS_120B    -> [ rpm |-> 30, tpd |-> 200000 ]
        [] m = KIMI_K2         -> [ rpm |-> 60, tpd |-> 300000 ]
        [] m = KIMI_K2_0905    -> [ rpm |-> 60, tpd |-> 300000 ]
        [] m = LLAMA4_SCOUT    -> [ rpm |-> 30, tpd |-> 500000 ]
        [] m = LLAMA4_MAVERICK -> [ rpm |-> 30, tpd |-> 500000 ]
        [] m = LLAMA33_70B     -> [ rpm |-> 30, tpd |-> 100000 ]
        [] m = LLAMA31_8B      -> [ rpm |-> 30, tpd |-> 500000 ]
        [] m = QWEN3_32B       -> [ rpm |-> 60, tpd |-> 500000 ]
        [] m = COMPOUND        -> [ rpm |-> 30, tpd |-> Infinity ]
        [] OTHER               -> [ rpm |-> 30, tpd |-> Infinity ] ]

\* A JavaScript Map is a function whose domain is the set of keys it holds.
EmptyMap == [ k \in {} |-> 0 ]
MapSet(f, k, v) == [ x \in (DOMAIN f) \cup {k} |-> IF x = k THEN v ELSE f[x] ]

Min(a, b) == IF a < b THEN a ELSE b
Max(a, b) == IF a > b THEN a ELSE b

\* A variant of the pruning filter that differs from the code: a timestamp
\* exactly RPM_WINDOW_MS old is kept.
Recent_Inclusive(timestamps, clk) ==
  LET cutoff == clk - RPM_WINDOW_MS
      Newer(ts) == ts >= cutoff
  IN  SelectSeq(timestamps, Newer)

\* timestamps.filter((ts) => ts > cutoff)
Recent(timestamps, clk) ==
  LET cutoff == clk - RPM_WINDOW_MS
      Newer(ts) == ts > cutoff
  IN  SelectSeq(timestamps, Newer)

\* recordModelRequest: the model's RPM window after a request at time clk.
recordModelRequest(w, model, clk) ==
  LET timestamps == IF model \in DOMAIN w THEN w[model] ELSE << >>
      pruned     == Append(Recent(timestamps, clk), clk)
  IN  MapSet(w, model, pruned)

\* rpmUsagePercent prunes the window it reads ("prune while we're here").
rpmPruned(w, model, clk) ==
  IF model \in DOMAIN w THEN MapSet(w, model, Recent(w[model], clk)) ELSE w

\* rpmUsagePercent: the value returned (floored percentage, -1 unknown).
rpmUsagePercent(w, model, clk) ==
  IF model \notin DOMAIN MODEL_LIMITS THEN -1
  ELSE IF model \notin DOMAIN w THEN -1
  ELSE (Len(Recent(w[model], clk)) * 100) \div MODEL_LIMITS[model].rpm

\* recordModelTokens: the TPD accumulators after `tokens` are added at time clk.
recordModelTokens(d, model, tokens, clk) ==
  IF model \notin DOMAIN d \/ clk - d[model].dayStart >= TPD_WINDOW_MS
    THEN MapSet(d, model, [ tokens |-> tokens, dayStart |-> clk ])
    ELSE MapSet(d, model, [ tokens   |-> d[model].tokens + tokens,
                            dayStart |-> d[model].dayStart ])

\* tpdUsagePercent
tpdUsagePercent(d, model, clk) ==
  IF model \notin DOMAIN MODEL_LIMITS \/ MODEL_LIMITS[model].tpd = Infinity
    THEN -1
  ELSE IF model \notin DOMAIN d THEN -1
  ELSE IF clk - d[model].dayStart >= TPD_WINDOW_MS THEN 0
  ELSE Min(100, (d[model].tokens * 100) \div MODEL_LIMITS[model].tpd)

\* A Go-style duration "[Nh][N.Nm][N.Ns]" is held as its three fields, the
\* minutes and seconds in thousandths; a field the string lacks is 0.
parseDuration(val) ==
  val.h * 3600000 + (val.m * 60000) \div 1000 + (val.s * 1000) \div 1000

ZeroDuration == [ h |-> 0, m |-> 0, s |-> 0 ]

\* The six rate-limit headers of a response: a function from the names of the
\* headers present to their values.
NoHeaders == EmptyMap

HeaderInt(headers, name) == IF name \in DOMAIN headers THEN headers[name] ELSE 0

\* updateFromHeaders: the header snapshots after a response at time clk.
updateFromHeaders(st, model, headers, clk) ==
  IF "limit-requests" \notin DOMAIN headers
     /\ "remaining-requests" \notin DOMAIN headers
    THEN st
    ELSE MapSet(st, model,
           [ rpdLimit     |-> HeaderInt(headers, "limit-requests"),
             rpdRemaining |-> HeaderInt(headers, "remaining-requests"),
             rpdResetAt   |-> IF "reset-requests" \in DOMAIN headers
                                THEN clk + parseDuration(headers["reset-requests"])
                                ELSE 0,
             tpmLimit     |-> HeaderInt(headers, "limit-tokens"),
             tpmRemaining |-> HeaderInt(headers, "remaining-tokens"),
             tpmResetAt   |-> IF "reset-tokens" \in DOMAIN headers
                                THEN clk + parseDuration(headers["reset-tokens"])
                                ELSE 0,
             updatedAt    |-> clk ])

\* A variant of dimensionUsage that differs from the code: an expired reset
\* does not clear the usage.
dimensionUsage_NoExpiry(limit, remaining, resetAt, clk) ==
  IF limit <= 0 THEN -1
  ELSE Max(0, Min(100, ((limit - remaining) * 100) \div limit))

\* dimensionUsage: usage of one header-based dimension at time clk.
dimensionUsage(limit, remaining, resetAt, clk) ==
  IF limit <= 0 THEN -1
  ELSE IF resetAt > 0 /\ clk > resetAt THEN 0
  ELSE Max(0, Min(100, ((limit - remaining) * 100) \div limit))

\* getLoadInfo, once rpmUsagePercent and tpdUsagePercent have returned rpm
\* and tpd: the four dimensions of a model at time clk.
LoadInfo(st, model, rpm, tpd, clk) ==
  IF model \notin DOMAIN st
    THEN [ tpm |-> -1, rpm |-> IF rpm >= 0 THEN rpm ELSE -1,
           rpd |-> -1, tpd |-> tpd ]
    ELSE [ tpm |-> dimensionUsage(st[model].tpmLimit, st[model].tpmRemaining,
                                  st[model].tpmResetAt, clk),
           rpm |-> IF rpm >= 0 THEN rpm ELSE -1,
           rpd |-> dimensionUsage(st[model].rpdLimit, st[model].rpdRemaining,
                                  st[model].rpdResetAt, clk),
           tpd |-> tpd ]

\* getLoadInfo: the four dimensions of a model at time clk.
getLoadInfo(st, w, d, model, clk) ==
  LoadInfo(st, model, rpmUsagePercent(w, model, clk),
           tpdUsagePercent(d, model, clk), clk)

\* A variant of the check that differs from the code: a dimension exactly at
\* the threshold does not count.
OverThreshold_Strict(load) ==
  \/ load.tpm > SKIP_THRESHOLD
  \/ load.rpm > SKIP_THRESHOLD
  \/ load.rpd > SKIP_THRESHOLD
  \/ load.tpd > SKIP_THRESHOLD

\* The check shouldSkipModel makes of a load: any dimension at the threshold.
OverThreshold(load) ==
  \/ load.tpm >= SKIP_THRESHOLD
  \/ load.rpm >= SKIP_THRESHOLD
  \/ load.rpd >= SKIP_THRESHOLD
  \/ load.tpd >= SKIP_THRESHOLD

\* shouldSkipModel: the decision (its pruning of the RPM window is rpmPruned).
shouldSkipModel(st, w, d, model, clk) ==
  OverThreshold(getLoadInfo(st, w, d, model, clk))

\* ------------------------------------------------------------------------
\* Texts and provider replies
\* ------------------------------------------------------------------------

CHAR_LIMIT              == 240
CONDITION_LIMIT         == 120
IMAGE_DESCRIPTION_LIMIT == 200

DATA_MODELS   == << DATA_PROCESSING_MODEL, EMERGENCY_MODEL >>
SEARCH_MODELS == << COMPOUND, COMPOUND_MINI >>

\* Bounds of the exploration.
MaxDeviations == 2
TokensPerCall == 1000
ElapsedMs     == 60000

\* A text, by what the code reads of it:
\*   len    its length once trimmed          mixed  hasLanguageMixing(text)
\*   mk     markup characters in it          tag    extractVerdictTag(text)
\*   cond   length of its CONDITION field    none   text.trim() === "NONE"
\*   by     the model whose call produced it, or "canned" for a t() string
\*   canned the message key of a canned string
Text(len, mixed, mk) ==
  [ len |-> len, mixed |-> mixed, mk |-> mk, tag |-> "", cond |-> 0,
    none |-> FALSE, by |-> "", canned |-> "" ]

NoText == Text(0, FALSE, 0)

\* t(language, key): the bundles are not part of the sources read here; t()
\* returns a non-empty string for every key (at worst the key itself).
t(key) == [ Text(Len(key), FALSE, 0) EXCEPT !.by = "canned", !.canned = key ]

\* What the provider may send back for one request.
\*   kind "reject": fetch rejects (network error, or the 30 s abort)
\*   kind "http":   a response with status, rate-limit headers and a body;
\*                  json = FALSE is a body response.json() rejects
Reject == [ kind |-> "reject", status |-> 0, headers |-> NoHeaders,
            json |-> FALSE, content |-> NoText, tokens |-> 0 ]

BusyHeaders ==
  [ n \in { "limit-requests", "remaining-requests", "reset-requests",
            "limit-tokens", "remaining-tokens", "reset-tokens" } |->
      CASE n = "limit-requests"     -> 1000
        [] n = "remaining-requests" -> 10
        [] n = "reset-requests"     -> [ h |-> 1, m |-> 0, s |-> 0 ]
        [] n = "limit-tokens"       -> 6000
        [] n = "remaining-tokens"   -> 5000
        [] OTHER                    -> [ h |-> 0, m |-> 0, s |-> 7500 ] ]

CalmHeaders ==
  [ n \in DOMAIN BusyHeaders |->
      IF n = "remaining-requests" THEN 900 ELSE BusyHeaders[n] ]

Ok(content) ==
  [ kind |-> "http", status |-> 200, headers |-> CalmHeaders, json |-> TRUE,
    content |-> content, tokens |-> TokensPerCall ]

HttpError(status, headers) ==
  [ kind |-> "http", status |-> status, headers |-> headers, json |-> FALSE,
    content |-> NoText, tokens |-> 0 ]

\* Replies that fail the call whatever it was for: the fetch rejects, or the
\* provider answers 429 and reports the quota nearly spent.
FailingReplies == { Reject, HttpError(429, BusyHeaders) }

\* The replies to a call, by what the call is for: those of a provider working
\* as expected, and those that deviate from it.
ExpectedReplies(op) ==
  CASE op = "persona"  -> { Ok(Text(CHAR_LIMIT, FALSE, 2)) }
    [] op = "purify"   -> { Ok(Text(CHAR_LIMIT, FALSE, 2)) }
    [] op = "condense" -> { Ok(Text(CHAR_LIMIT, FALSE, 2)) }
    [] op = "classify" -> { Ok([ Text(9, FALSE, 0) EXCEPT !.tag = "APPROVE" ]) }
    [] op = "image"    -> { Ok(Text(IMAGE_DESCRIPTION_LIMIT, FALSE, 0)) }
    [] op = "extract"  ->
         { Ok([ Text(CHAR_LIMIT, FALSE, 0) EXCEPT !.cond = CONDITION_LIMIT ]) }
    [] op = "condition" -> { Ok(Text(CONDITION_LIMIT, FALSE, 0)) }
    [] OTHER (* search *) -> { Ok(Text(CHAR_LIMIT, FALSE, 0)) }

DeviantReplies(op) ==
  FailingReplies \cup { Ok(NoText) } \cup
  CASE op = "persona"  ->
         { Ok(Text(CHAR_LIMIT, TRUE, 2)), Ok(Text(CHAR_LIMIT + 1, FALSE, 2)),
           Ok(Text(CHAR_LIMIT + 1, TRUE, 2)) }
    [] op = "purify"   -> { Ok(Text(CHAR_LIMIT + 1, FALSE, 2)) }
    [] op = "condense" -> { Ok(Text(CHAR_LIMIT + 3, FALSE, 2)) }
    [] op = "classify" ->
         { Ok(Text(9, FALSE, 0)) } \cup
         { Ok([ Text(9, FALSE, 0) EXCEPT !.tag = v ]) : v \in Verdicts \ { "APPROVE" } }
    [] op = "image"    -> { Ok(Text(IMAGE_DESCRIPTION_LIMIT + 1, FALSE, 0)) }
    [] op = "extract"  ->
         { Ok(Text(CHAR_LIMIT, FALSE, 0)),
           Ok([ Text(CHAR_LIMIT, FALSE, 0) EXCEPT !.cond = CONDITION_LIMIT + 1 ]) }
    [] op = "condition" -> { Ok(Text(CONDITION_LIMIT + 1, FALSE, 0)) }
    [] OTHER (* search *) -> { Ok([ Text(4, FALSE, 0) EXCEPT !.none = TRUE ]) }

\* ------------------------------------------------------------------------
\* GroqClient.chat (groq/client.ts)
\* ------------------------------------------------------------------------

\* One chat() call of a task: the model and what the call is for.
NoCall == [ model |-> "", op |-> "" ]
Call(model, op) == [ model |-> model, op |-> op ]

\* What chat() hands its caller: the content, or a throw.
Thrown == [ ok |-> FALSE, content |-> NoText, tokens |-> 0 ]

\* chat() from the settling of its fetch to its return or throw, given the
\* provider's reply: the outcome, and the header snapshots and TPD
\* accumulators it leaves.  (recordModelRequest ran when the call was issued;
\* the content is the reply's content once stripThinkBlocks has run.)
chat(model, reply, st, d, clk) ==
  IF reply.kind = "reject"
    THEN [ out |-> Thrown, store |-> st, tpd |-> d ]
  ELSE LET st1 == updateFromHeaders(st, model, reply.headers, clk)
       IN  IF reply.status # 200 \/ ~reply.json
             THEN [ out |-> Thrown, store |-> st1, tpd |-> d ]
             ELSE [ out |-> [ ok |-> TRUE,
                              content |-> [ reply.content EXCEPT !.by = model ],
                              tokens |-> reply.tokens ],
                    store |-> st1,
                    tpd |-> recordModelTokens(d, model, reply.tokens, clk) ]

\* ------------------------------------------------------------------------
\* queryPersona (magi/engine.ts)
\* ------------------------------------------------------------------------

\* [config.model, ...config.fallbackModels, config.emergencyModel]
ChainOf(p) ==
  LET config == getPersonaConfigs[p]
  IN  << config.model >> \o config.fallbackModels \o << config.emergencyModel >>

NoResponse ==
  [ set |-> FALSE, content |-> NoText, verdict |-> "REFUSE", model |-> "",
    error |-> FALSE, reason |-> "" ]
Response(content, model, error, reason) ==
  [ set |-> TRUE, content |-> content, verdict |-> "REFUSE", model |-> model,
    error |-> error, reason |-> reason ]

IdlePersona == [ st |-> "idle", i |-> 1, call |-> NoCall, final |-> NoText ]
DonePersona(i) == [ st |-> "done", i |-> i, call |-> NoCall, final |-> NoText ]

\* Variants of the preemptive skip that differ from the code: one never
\* skips, one skips the last model of the chain too.
PreemptiveSkip_Never(models, i, st, w, d, clk) == FALSE

PreemptiveSkip_LastToo(models, i, st, w, d, clk) ==
  shouldSkipModel(st, w, d, models[i], clk)

\* The preemptive skip of iteration i (1-based): near a rate limit and not
\* the last resort.
PreemptiveSkip(models, i, st, w, d, clk) ==
  i < Len(models) /\ shouldSkipModel(st, w, d, models[i], clk)

\* The loop from the head of iteration i to the first model it attempts:
\* the index reached, the RPM windows as the skip checks left them, and the
\* models skipped on the way.
RECURSIVE NextAttempt(_, _, _, _, _, _)
NextAttempt(models, i, st, w, d, clk) ==
  IF i > Len(models) THEN [ i |-> i, w |-> w, skipped |-> << >> ]
  ELSE LET w1 == IF i < Len(models) THEN rpmPruned(w, models[i], clk) ELSE w
       IN  IF PreemptiveSkip(models, i, st, w, d, clk)
             THEN LET r == NextAttempt(models, i + 1, st, w1, d, clk)
                  IN  [ r EXCEPT !.skipped = << models[i] >> \o @ ]
             ELSE [ i |-> i, w |-> w1, skipped |-> << >> ]

\* sanitizeContent: markup markers are removed, the rest is kept.
sanitizeContent(text) == [ text EXCEPT !.len = text.len - text.mk, !.mk = 0 ]

\* A step of queryPersona yields the task's new state, the RPM windows, the
\* response if it returned, and what the step did: the calls it issued, the
\* models it skipped, the models whose attempt it found failed.
Yield(ps, w, resp, calls, skipped) ==
  [ ps |-> ps, w |-> w, resp |-> resp, calls |-> calls, skipped |-> skipped,
    failed |-> << >> ]

\* The loop at the iteration r.i the skip checks let it reach: the call on
\* that model is issued, or the loop is over and the exhausted chain reported.
PersonaAttempt(p, r, clk) ==
  IF r.i > Len(ChainOf(p))
    THEN Yield(DonePersona(Len(ChainOf(p))), r.w,
               Response(t("coreMalfunction"), getPersonaConfigs[p].model,
                        TRUE, "All models exhausted"),
               << >>, r.skipped)
    ELSE Yield([ st |-> "chat", i |-> r.i,
                 call |-> Call(ChainOf(p)[r.i], "persona"), final |-> NoText ],
               recordModelRequest(r.w, ChainOf(p)[r.i], clk), NoResponse,
               << [ model |-> ChainOf(p)[r.i], op |-> "persona" ] >>, r.skipped)

\* The for loop entered at iteration i.
PersonaLoop(p, i, st, w, d, clk) ==
  PersonaAttempt(p, NextAttempt(ChainOf(p), i, st, w, d, clk), clk)

\* A variant of the catch block that differs from the code: the response of
\* an exhausted chain carries no error.
PersonaCatch_Unflagged(p, i, st, w, d, clk) ==
  [ IF i < Len(ChainOf(p))
      THEN PersonaLoop(p, i + 1, st, w, d, clk)
      ELSE Yield(DonePersona(i), w,
                 Response(t("coreMalfunction"), ChainOf(p)[i], FALSE, ""),
                 << >>, << >>)
    EXCEPT !.failed = << ChainOf(p)[i] >> ]

\* The catch block of iteration i.
PersonaCatch(p, i, st, w, d, clk) ==
  [ IF i < Len(ChainOf(p))
      THEN PersonaLoop(p, i + 1, st, w, d, clk)
      ELSE Yield(DonePersona(i), w,
                 Response(t("coreMalfunction"), ChainOf(p)[i], TRUE, "error"),
                 << >>, << >>)
    EXCEPT !.failed = << ChainOf(p)[i] >> ]

\* A variant of the return that differs from the code: the response names the
\* persona's primary model.
PersonaReturn_PrimaryModel(p, i, final, w) ==
  Yield(DonePersona(i), w,
        Response(sanitizeContent(final), getPersonaConfigs[p].model, FALSE, ""),
        << >>, << >>)

\* The successful return of iteration i.
PersonaReturn(p, i, final, w) ==
  Yield(DonePersona(i), w,
        Response(sanitizeContent(final), ChainOf(p)[i], FALSE, ""),
        << >>, << >>)

\* From the length check on: condense when over CHAR_LIMIT, else return.
PersonaLengthCap(p, i, final, w, clk) ==
  LET model == ChainOf(p)[i]
  IN  IF final.len > CHAR_LIMIT
        THEN Yield([ st |-> "condense", i |-> i,
                     call |-> Call(model, "condense"), final |-> final ],
                   recordModelRequest(w, model, clk), NoResponse,
                   << [ model |-> model, op |-> "condense" ] >>, << >>)
        ELSE PersonaReturn(p, i, final, w)

\* A variant of condense() that differs from the code: a rewrite that is
\* still over the limit is returned as it is.
condense_Uncut(outcome, limit) ==
  IF ~outcome.ok \/ outcome.content.len = 0 THEN NoText ELSE outcome.content

\* condense(): null on a failed or empty rewrite, else the rewrite, cut to
\* limit - 1 characters plus an ellipsis when still over the limit.
condense(outcome, limit) ==
  IF ~outcome.ok \/ outcome.content.len = 0 THEN NoText
  ELSE IF outcome.content.len <= limit THEN outcome.content
  ELSE [ outcome.content EXCEPT !.len = (limit - 1) + 1,
                                !.mk = Min(@, (limit - 1) + 1) ]

\* purifyLanguage(): null on a failed or empty rewrite, else the rewrite.
purifyLanguage(outcome) ==
  IF ~outcome.ok \/ outcome.content.len = 0 THEN NoText ELSE outcome.content

\* A variant of queryPersona that differs from the code: the output-overflow
\* response is not flagged as an error.
PersonaResume_OverflowUnflagged(p, ps, outcome, st, w, d, clk) ==
  LET model == ChainOf(p)[ps.i]
  IN  CASE ps.st = "chat" ->
             IF ~outcome.ok \/ outcome.content.len = 0
               THEN PersonaCatch(p, ps.i, st, w, d, clk)
             ELSE IF outcome.content.mixed
               THEN Yield([ st |-> "purify", i |-> ps.i,
                            call |-> Call(model, "purify"),
                            final |-> outcome.content ],
                          recordModelRequest(w, model, clk), NoResponse,
                          << [ model |-> model, op |-> "purify" ] >>, << >>)
             ELSE PersonaLengthCap(p, ps.i, outcome.content, w, clk)
        [] ps.st = "purify" ->
             LET purified == purifyLanguage(outcome)
             IN  PersonaLengthCap(p, ps.i,
                   IF purified.len > 0 THEN purified ELSE ps.final, w, clk)
        [] OTHER (* "condense" *) ->
             LET condensed == condense(outcome, CHAR_LIMIT)
             IN  IF condensed.len = 0
                   THEN Yield(DonePersona(ps.i), w,
                              Response(t("outputOverflow"), model, FALSE, ""),
                              << >>, << >>)
                   ELSE PersonaReturn(p, ps.i, condensed, w)

\* A variant of queryPersona that differs from the code: a failed
\* condensation is a hard failure that moves on to the next model.
PersonaResume_OverflowFallsBack(p, ps, outcome, st, w, d, clk) ==
  LET model == ChainOf(p)[ps.i]
  IN  CASE ps.st = "chat" ->
             IF ~outcome.ok \/ outcome.content.len = 0
               THEN PersonaCatch(p, ps.i, st, w, d, clk)
             ELSE IF outcome.content.mixed
               THEN Yield([ st |-> "purify", i |-> ps.i,
                            call |-> Call(model, "purify"),
                            final |-> outcome.content ],
                          recordModelRequest(w, model, clk), NoResponse,
                          << [ model |-> model, op |-> "purify" ] >>, << >>)
             ELSE PersonaLengthCap(p, ps.i, outcome.content, w, clk)
        [] ps.st = "purify" ->
             LET purified == purifyLanguage(outcome)
             IN  PersonaLengthCap(p, ps.i,
                   IF purified.len > 0 THEN purified ELSE ps.final, w, clk)
        [] OTHER (* "condense" *) ->
             LET condensed == condense(outcome, CHAR_LIMIT)
             IN  IF condensed.len = 0
                   THEN PersonaCatch(p, ps.i, st, w, d, clk)
                   ELSE PersonaReturn(p, ps.i, condensed, w)

\* A variant of queryPersona that differs from the code: a failed
\* purification is a failure of the model, and the chain moves on.
PersonaResume_PurifyFailureFallsBack(p, ps, outcome, st, w, d, clk) ==
  LET model == ChainOf(p)[ps.i]
  IN  CASE ps.st = "chat" ->
             IF ~outcome.ok \/ outcome.content.len = 0
               THEN PersonaCatch(p, ps.i, st, w, d, clk)
             ELSE IF outcome.content.mixed
               THEN Yield([ st |-> "purify", i |-> ps.i,
                            call |-> Call(model, "purify"),
                            final |-> outcome.content ],
                          recordModelRequest(w, model, clk), NoResponse,
                          << [ model |-> model, op |-> "purify" ] >>, << >>)
             ELSE PersonaLengthCap(p, ps.i, outcome.content, w, clk)
        [] ps.st = "purify" ->
             LET purified == purifyLanguage(outcome)
             IN  IF purified.len = 0
                   THEN PersonaCatch(p, ps.i, st, w, d, clk)
                   ELSE PersonaLengthCap(p, ps.i, purified, w, clk)
        [] OTHER (* "condense" *) ->
             LET condensed == condense(outcome, CHAR_LIMIT)
             IN  IF condensed.len = 0
                   THEN Yield(DonePersona(ps.i), w,
                              Response(t("outputOverflow"), model, TRUE,
                                       "Condense failed after max attempts"),
                              << >>, << >>)
                   ELSE PersonaReturn(p, ps.i, condensed, w)

\* queryPersona resumed with the outcome of the call it was awaiting.
PersonaResume(p, ps, outcome, st, w, d, clk) ==
  LET model == ChainOf(p)[ps.i]
  IN  CASE ps.st = "chat" ->
             IF ~outcome.ok \/ outcome.content.len = 0
               THEN PersonaCatch(p, ps.i, st, w, d, clk)
             ELSE IF outcome.content.mixed
               THEN Yield([ st |-> "purify", i |-> ps.i,
                            call |-> Call(model, "purify"),
                            final |-> outcome.content ],
                          recordModelRequest(w, model, clk), NoResponse,
                          << [ model |-> model, op |-> "purify" ] >>, << >>)
             ELSE PersonaLengthCap(p, ps.i, outcome.content, w, clk)
        [] ps.st = "purify" ->
             LET purified == purifyLanguage(outcome)
             IN  PersonaLengthCap(p, ps.i,
                   IF purified.len > 0 THEN purified ELSE ps.final, w, clk)
        [] OTHER (* "condense" *) ->
             LET condensed == condense(outcome, CHAR_LIMIT)
             IN  IF condensed.len = 0
                   THEN Yield(DonePersona(ps.i), w,
                              Response(t("outputOverflow"), model, TRUE,
                                       "Condense failed after max attempts"),
                              << >>, << >>)
                   ELSE PersonaReturn(p, ps.i, condensed, w)

\* ------------------------------------------------------------------------
\* State
\* ------------------------------------------------------------------------

VARIABLES
  now,               \* Date.now(), in ms
  store,             \* ratelimits.ts: model -> RateLimitInfo (from headers)
  rpmWindows,        \* ratelimits.ts: model -> request timestamps
  tpdWindows,        \* ratelimits.ts: model -> { tokens, dayStart }
  pc,                \* where deliberate() is
  hasImage,          \* deliberate() was given an image
  main,              \* deliberate()'s own chain: iteration, call, held text
  imageContext,      \* describeImage()'s result (len 0: null)
  approvalCondition, \* extraction.condition ?? "" (len 0: "")
  search,            \* fetchSearchContext()'s { context, failed }
  persona,           \* the three queryPersona() tasks
  responses,         \* their PersonaResponse once returned
  trail,             \* per persona: calls issued, models skipped, models failed
  cls,               \* the three classifyVerdict() tasks, with the calls each made
  deviations,        \* replies so far that were not the expected one
  verdictsIn,        \* consensus: the three verdicts handed in
  outcome,           \* consensus: the result computed for them
  reorders,          \* consensus: how often the verdicts were reordered
  down,              \* the models the provider is down for
  mainTrail,         \* the calls of deliberate()'s own chain, with how each ended
  report,            \* bot: what handleDeliberation replied ("" before it did)
  probe,             \* tracker: the model observed and what was last read of it
  steps,             \* tracker: how many times it was written to or time passed
  callers,           \* client: the dataChat() calls running, each with its chat()
  kv,                \* storage: whether Deno KV answers, and what it holds
  session,           \* bot: where handleDeliberation is, and what it has done
  requests,          \* bot: the runs of handleDeliberation for one user
  userData,          \* storage: the user's entries and the query counter
  pending            \* storage: the kv.set() writes issued and not settled

trackerVars == << now, store, rpmWindows, tpdWindows >>
consensusVars == << verdictsIn, outcome, reorders >>
taskVars ==
  << pc, hasImage, main, imageContext, approvalCondition, search, persona,
     responses, trail, cls, deviations >>
botVars == << report >>
probeVars == << probe, steps >>
clientVars == << callers, kv >>
handlerVars == << requests, userData >>
saveVars == << pending >>
sessionVars == << session, handlerVars, saveVars >>
vars ==
  << trackerVars, taskVars, consensusVars, down, mainTrail, botVars, probeVars,
     clientVars, sessionVars >>

Replies(op, dev) ==
  ExpectedReplies(op) \cup (IF dev < MaxDeviations THEN DeviantReplies(op) ELSE {})
Cost(op, reply) == IF reply \in ExpectedReplies(op) THEN 0 ELSE 1

\* The replies to a call: every fetch on a model the provider is down for
\* rejects, and that is no deviation.
RepliesTo(call, dev) ==
  IF call.model \in down THEN { Reject } ELSE Replies(call.op, dev)
CostOf(call, reply) == IF call.model \in down THEN 0 ELSE Cost(call.op, reply)

\* How a call ended, as its caller tells it: it threw, it returned nothing,
\* it returned no CONDITION field, it returned NONE, it returned no verdict
\* tag, or it returned what was asked for.
ResultOf(op, out) ==
  IF ~out.ok THEN "threw"
  ELSE IF out.content.len = 0 THEN "empty"
  ELSE IF op = "extract" /\ out.content.cond = 0 THEN "nocond"
  ELSE IF op = "search" /\ out.content.none THEN "none"
  ELSE IF op = "classify" /\ out.content.tag = "" THEN "untagged"
  ELSE "ok"

\* Nothing has been read of the tracker.
NoProbe ==
  [ model |-> "", load |-> [ tpm |-> -1, rpm |-> -1, rpd |-> -1, tpd |-> -1 ],
    skip |-> FALSE, read |-> FALSE ]

\* The dataChat() calls that may run at the same time.
Callers == { "dataChat", "describeImage" }

\* A dataChat() call: where its chat() on DATA_MODELS[i] is, when that chat()
\* started, the response its fetch resolved with, and the attempts it has
\* ended, each with the time it started, the tokens counted for it
\* and when, how it ended and whether a save issued during it was rejected.
IdleCaller ==
  [ st |-> "idle", i |-> 1, startedAt |-> 0, reply |-> Reject, lost |-> FALSE,
    log |-> << >> ]

\* Deno KV: answering or not, and the three kinds of entries saved per model.
EmptyKv == [ up |-> TRUE, info |-> EmptyMap, rpm |-> EmptyMap, tpd |-> EmptyMap ]

InitClient ==
  /\ callers = [ c \in Callers |-> IdleCaller ]
  /\ kv = EmptyKv

\* handleDeliberation has not been called.
\* A context summary: whose it is ("none", the one "stored" before the
\* request, a "new" one) and its length.
NoSummary == [ of |-> "none", len |-> 0 ]

\* One run of handleDeliberation.
\*   request      which request of the chat this run handles
\*   user         ctx.from.id is present
\*   tooSoon      the user's last request is within the cooldown
\*   stored       the summary under ["user", userId, "context"]
\*   prev         prevContext
\*   phase        the step deliberate() is at
\*   result       "normal", or "allFailed" when the three personas have .error
\*   replies      the messages sent to the chat
\*   thinking     the thinking message is on display
\*   compressions the calls of compressContext made
\*   i            the iteration dataChat() is at
\*   why          why compressContext returned null
\*   summary      what compressContext returned
NoSession ==
  [ pc |-> "idle", request |-> 1, user |-> FALSE, tooSoon |-> FALSE,
    stored |-> NoSummary,
    prev |-> NoSummary, phase |-> 1, result |-> "", replies |-> << >>,
    thinking |-> FALSE, compressions |-> 0, i |-> 1, why |-> "",
    summary |-> NoSummary ]

\* getCooldownMs() when COOLDOWN_SECONDS is not set.
COOLDOWN_MS == 3600000

\* The runs of handleDeliberation the requests of one user start.
MaxOverlap == 2
Runs == 1..MaxOverlap

\* A UserPref: the language the user fixed, the one last detected ("" when
\* absent).
NoPref == [ fixedLang |-> "", detectedLang |-> "" ]

\* One run of handleDeliberation for an identified user.
\*   pc        where the run is
\*   pref      what getUserPref returned
\*   prev      prevContext
\*   result    "normal", or "allFailed" when the three personas have .error
\*   lang      result.language
\*   replies   the messages sent to the chat
\*   thinking  the thinking message is on display
\*   stamped   the Date.now() this run wrote as the user's last request
NoRun ==
  [ pc |-> "idle", pref |-> NoPref, prev |-> NoSummary, result |-> "",
    lang |-> "", replies |-> << >>, thinking |-> FALSE, stamped |-> 0 ]

\* What Deno KV holds for the user (lastRequest 0: no entry), and the
\* counter under ["stats", "queryCount"].
NoUser ==
  [ pref |-> NoPref, lastRequest |-> 0, context |-> NoSummary,
    queryCount |-> 0 ]

\* No request is being handled, and no write is in flight.
InitHandlers ==
  /\ requests = [ r \in Runs |-> NoRun ]
  /\ userData = NoUser
  /\ pending = {}

IdleMain == [ i |-> 1, call |-> NoCall, held |-> NoText ]
IdleCls  == [ st |-> "idle", i |-> 1, call |-> NoCall, verdict |-> "REFUSE",
              calls |-> << >>, results |-> << >> ]
NoSearch == [ context |-> NoText, failed |-> FALSE ]
NoTrail  == [ calls |-> << >>, skipped |-> << >>, failed |-> << >> ]

\* ------------------------------------------------------------------------
\* deliberate(), steps 1 to 4 (magi/engine.ts)
\* ------------------------------------------------------------------------

\* A step of deliberate()'s own thread yields its position, its chain state,
\* the RPM windows and the three results gathered so far.
MainYield(p, m, w, img, cond, srch) ==
  [ pc |-> p, main |-> m, w |-> w, imageContext |-> img,
    approvalCondition |-> cond, search |-> srch ]

\* extractCondition's loop at iteration i: one chat() on DATA_MODELS[i].
ExtractLoop(i, w, img, clk) ==
  MainYield("extract",
            [ i |-> i, call |-> Call(DATA_MODELS[i], "extract"), held |-> NoText ],
            recordModelRequest(w, DATA_MODELS[i], clk), img, NoText, NoSearch)

\* fetchSearchContext's loop at iteration i: one chat() on SEARCH_MODELS[i].
SearchLoop(i, w, img, cond, clk) ==
  MainYield("search",
            [ i |-> i, call |-> Call(SEARCH_MODELS[i], "search"), held |-> NoText ],
            recordModelRequest(w, SEARCH_MODELS[i], clk), img, cond, NoSearch)

\* Step 4 is entered once fetchSearchContext has returned.
SearchReturn(w, img, cond, srch) ==
  MainYield("personas", IdleMain, w, img, cond, srch)

\* describeImage(): null on a failed or empty reply, else the description,
\* cut to IMAGE_DESCRIPTION_LIMIT - 1 characters plus an ellipsis.
describeImage(out) ==
  IF ~out.ok \/ out.content.len = 0 THEN NoText
  ELSE IF out.content.len > IMAGE_DESCRIPTION_LIMIT
    THEN [ out.content EXCEPT !.len = (IMAGE_DESCRIPTION_LIMIT - 1) + 1 ]
  ELSE out.content

\* The CONDITION field of an extraction reply, as a text of its own.
ConditionOf(content) == [ content EXCEPT !.len = content.cond, !.cond = 0 ]

\* A variant of extractCondition that differs from the code: a reply without
\* a CONDITION ends the extraction with a null condition at once.
ExtractResume_NoCondReturns(m, out, w, img, clk) ==
  LET last == m.i >= Len(DATA_MODELS)
      rawCond == ConditionOf(out.content)
  IN  IF ~out.ok \/ out.content.len = 0
        THEN IF ~last THEN ExtractLoop(m.i + 1, w, img, clk)
                      ELSE SearchLoop(1, w, img, NoText, clk)
      ELSE IF rawCond.len = 0
        THEN SearchLoop(1, w, img, NoText, clk)
      ELSE IF rawCond.len > CONDITION_LIMIT
        THEN MainYield("extract",
                       [ i |-> m.i, call |-> Call(DATA_MODELS[m.i], "condition"),
                         held |-> rawCond ],
                       recordModelRequest(w, DATA_MODELS[m.i], clk),
                       img, NoText, NoSearch)
      ELSE SearchLoop(1, w, img, rawCond, clk)

\* A variant of extractCondition that differs from the code: when the last
\* model has given no condition either, the failure is thrown out of
\* deliberate().
ExtractResume_ExhaustedThrows(m, out, w, img, clk) ==
  LET last == m.i >= Len(DATA_MODELS)
      rawCond == ConditionOf(out.content)
  IN  IF ~out.ok \/ out.content.len = 0 \/ rawCond.len = 0
        THEN IF ~last THEN ExtractLoop(m.i + 1, w, img, clk)
                      ELSE MainYield("thrown", IdleMain, w, img, NoText, NoSearch)
      ELSE IF rawCond.len > CONDITION_LIMIT
        THEN MainYield("extract",
                       [ i |-> m.i, call |-> Call(DATA_MODELS[m.i], "condition"),
                         held |-> rawCond ],
                       recordModelRequest(w, DATA_MODELS[m.i], clk),
                       img, NoText, NoSearch)
      ELSE SearchLoop(1, w, img, rawCond, clk)

\* extractCondition resumed with the outcome of its chat() on DATA_MODELS[i].
ExtractResume(m, out, w, img, clk) ==
  LET last == m.i >= Len(DATA_MODELS)
      rawCond == ConditionOf(out.content)
  IN  IF ~out.ok \/ out.content.len = 0 \/ rawCond.len = 0
        THEN IF ~last THEN ExtractLoop(m.i + 1, w, img, clk)
                      ELSE SearchLoop(1, w, img, NoText, clk)
      ELSE IF rawCond.len > CONDITION_LIMIT
        THEN MainYield("extract",
                       [ i |-> m.i, call |-> Call(DATA_MODELS[m.i], "condition"),
                         held |-> rawCond ],
                       recordModelRequest(w, DATA_MODELS[m.i], clk),
                       img, NoText, NoSearch)
      ELSE SearchLoop(1, w, img, rawCond, clk)

\* A variant of extractCondition that differs from the code: when the
\* condensation fails the condition is kept as it was extracted.
CondenseResume_KeepsRaw(m, out, w, img, clk) ==
  LET condensed == condense(out, CONDITION_LIMIT)
      condition == IF condensed.len > 0 THEN condensed ELSE m.held
  IN  SearchLoop(1, w, img, condition, clk)

\* extractCondition resumed with the outcome of condense(): the rewrite, or
\* rawCond.slice(0, CONDITION_LIMIT - 1) + ellipsis.
CondenseResume(m, out, w, img, clk) ==
  LET condensed == condense(out, CONDITION_LIMIT)
      condition == IF condensed.len > 0 THEN condensed
                   ELSE [ m.held EXCEPT !.len = (CONDITION_LIMIT - 1) + 1 ]
  IN  SearchLoop(1, w, img, condition, clk)

\* A variant of fetchSearchContext that differs from the code: an empty reply
\* counts as a failed attempt.
SearchResume_EmptyFails(m, out, w, img, cond, clk) ==
  IF out.ok /\ out.content.len > 0
    THEN IF out.content.none
           THEN SearchReturn(w, img, cond, [ context |-> NoText, failed |-> FALSE ])
           ELSE SearchReturn(w, img, cond,
                             [ context |-> out.content, failed |-> FALSE ])
  ELSE IF m.i < Len(SEARCH_MODELS)
    THEN SearchLoop(m.i + 1, w, img, cond, clk)
  ELSE SearchReturn(w, img, cond, [ context |-> NoText, failed |-> TRUE ])

\* fetchSearchContext resumed with the outcome of its chat() on SEARCH_MODELS[i].
SearchResume(m, out, w, img, cond, clk) ==
  IF out.ok
    THEN IF out.content.len = 0 \/ out.content.none
           THEN SearchReturn(w, img, cond, [ context |-> NoText, failed |-> FALSE ])
           ELSE SearchReturn(w, img, cond,
                             [ context |-> out.content, failed |-> FALSE ])
  ELSE IF m.i < Len(SEARCH_MODELS)
    THEN SearchLoop(m.i + 1, w, img, cond, clk)
  ELSE SearchReturn(w, img, cond, [ context |-> NoText, failed |-> TRUE ])

\* A variant of deliberate() that differs from the code: the search is
\* started as soon as the image is described.
MainResume_SearchEarly(out, w, clk) ==
  CASE pc = "image" -> SearchLoop(1, w, describeImage(out), NoText, clk)
    [] pc = "extract" /\ main.call.op = "extract" ->
         ExtractResume(main, out, w, imageContext, clk)
    [] pc = "extract" /\ main.call.op = "condition" ->
         CondenseResume(main, out, w, imageContext, clk)
    [] OTHER ->
         SearchResume(main, out, w, imageContext, approvalCondition, clk)

\* A variant of deliberate() that differs from the code: describeImage has no
\* try/catch, so a failed image call is thrown out of deliberate().
MainResume_ImageThrows(out, w, clk) ==
  CASE pc = "image" /\ ~out.ok ->
         MainYield("thrown", IdleMain, w, NoText, NoText, NoSearch)
    [] pc = "image" /\ out.ok -> ExtractLoop(1, w, describeImage(out), clk)
    [] pc = "extract" /\ main.call.op = "extract" ->
         ExtractResume(main, out, w, imageContext, clk)
    [] pc = "extract" /\ main.call.op = "condition" ->
         CondenseResume(main, out, w, imageContext, clk)
    [] OTHER (* "search" *) ->
         SearchResume(main, out, w, imageContext, approvalCondition, clk)

\* deliberate() resumed with the outcome of the call it was awaiting.
MainResume(out, w, clk) ==
  CASE pc = "image" -> ExtractLoop(1, w, describeImage(out), clk)
    [] pc = "extract" /\ main.call.op = "extract" ->
         ExtractResume(main, out, w, imageContext, clk)
    [] pc = "extract" /\ main.call.op = "condition" ->
         CondenseResume(main, out, w, imageContext, clk)
    [] OTHER (* "search" *) ->
         SearchResume(main, out, w, imageContext, approvalCondition, clk)

\* Promise.allSettled([queryPersona(melchior), queryPersona(balthasar),
\* queryPersona(casper)]): each call runs, in this order, up to its first
\* await before the next one starts.
\* ys holds what the calls before the k-th yielded; the result holds what
\* each of the three yielded, in PersonaOrder, each on the RPM windows the
\* one before it left.
RECURSIVE LaunchPersonasFrom(_, _, _, _, _, _)
LaunchPersonasFrom(k, ys, st, w, d, clk) ==
  IF k > Len(PersonaOrder) THEN ys
  ELSE LaunchPersonasFrom(
         k + 1,
         Append(ys, PersonaLoop(PersonaOrder[k], 1, st,
                                IF k = 1 THEN w ELSE ys[k - 1].w, d, clk)),
         st, w, d, clk)

LaunchPersonas(st, w, d, clk) == LaunchPersonasFrom(1, << >>, st, w, d, clk)

\* ------------------------------------------------------------------------
\* deliberate(), step 5: verdict classification (magi/engine.ts)
\* ------------------------------------------------------------------------

\* extractVerdictTag: the tag found in the classifier's output ("" for null).
extractVerdictTag(content) == content.tag

\* A variant that differs from the code: every response is classified.
NeedsClassifier_Always(r) == TRUE

\* The classifier is called for a response only when it carries no error.
NeedsClassifier(r) == ~r.error

\* dataChat's loop at iteration i: one chat() on DATA_MODELS[i].
DataChatLoop(i, calls, w, clk) ==
  [ c |-> [ st |-> "chat", i |-> i, call |-> Call(DATA_MODELS[i], "classify"),
            verdict |-> "REFUSE", calls |-> Append(calls, DATA_MODELS[i]),
            results |-> << >> ],
    w |-> recordModelRequest(w, DATA_MODELS[i], clk) ]

ClsDone(v, calls, w) ==
  [ c |-> [ st |-> "done", i |-> 1, call |-> NoCall, verdict |-> v,
            calls |-> calls, results |-> << >> ],
    w |-> w ]

\* responses.map(r => r.error ? Promise.resolve("REFUSE") : classifyVerdict(..))
ClassifyOne(r, w, clk) ==
  IF NeedsClassifier(r) THEN DataChatLoop(1, << >>, w, clk)
  ELSE ClsDone("REFUSE", << >>, w)

\* Promise.all(responses.map(...)): the three are started in PersonaOrder,
\* each on the RPM windows the one before it left.
RECURSIVE LaunchClassifiersFrom(_, _, _, _, _)
LaunchClassifiersFrom(k, ys, rs, w, clk) ==
  IF k > Len(PersonaOrder) THEN ys
  ELSE LaunchClassifiersFrom(
         k + 1,
         Append(ys, ClassifyOne(rs[PersonaOrder[k]],
                                IF k = 1 THEN w ELSE ys[k - 1].w, clk)),
         rs, w, clk)

LaunchClassifiers(rs, w, clk) == LaunchClassifiersFrom(1, << >>, rs, w, clk)

\* A variant of classifyVerdict that differs from the code: output without a
\* verdict tag is handed on as it is.
ClsResume_Unparsed(k, out, w, clk) ==
  IF out.ok
    THEN IF out.content.len = 0 THEN ClsDone("REFUSE", k.calls, w)
         ELSE ClsDone(extractVerdictTag(out.content), k.calls, w)
  ELSE IF k.i < Len(DATA_MODELS) THEN DataChatLoop(k.i + 1, k.calls, w, clk)
  ELSE ClsDone("REFUSE", k.calls, w)

\* classifyVerdict resumed with the outcome of dataChat's call on DATA_MODELS[i].
ClsResume(k, out, w, clk) ==
  IF out.ok
    THEN IF out.content.len = 0 THEN ClsDone("REFUSE", k.calls, w)
         ELSE ClsDone(IF extractVerdictTag(out.content) = "" THEN "REFUSE"
                      ELSE extractVerdictTag(out.content), k.calls, w)
  ELSE IF k.i < Len(DATA_MODELS) THEN DataChatLoop(k.i + 1, k.calls, w, clk)
  ELSE ClsDone("REFUSE", k.calls, w)

\* ------------------------------------------------------------------------
\* Actions
\* ------------------------------------------------------------------------

\* Variants that differ from the code: the wait ends with the first persona
\* to settle, or with the second.
AllSettled_Any(ps) == \E p \in Personas : ps[p].st = "done"

AllSettled_Quorum(ps) == Cardinality({ p \in Personas : ps[p].st = "done" }) >= 2

\* Promise.allSettled resolves once every queryPersona() has settled.
AllSettled(ps) == \A p \in Personas : ps[p].st = "done"

\* The position of a persona in PersonaOrder.
OrderOf(p) == CHOOSE k \in 1..Len(PersonaOrder) : PersonaOrder[k] = p

\* The three queryPersona() calls have run to their first await.
ApplyLaunch(l) ==
  /\ persona' = [ p \in Personas |-> l[OrderOf(p)].ps ]
  /\ responses' = [ p \in Personas |-> l[OrderOf(p)].resp ]
  /\ trail' = [ p \in Personas |->
                  [ calls   |-> l[OrderOf(p)].calls,
                    skipped |-> l[OrderOf(p)].skipped,
                    failed  |-> l[OrderOf(p)].failed ] ]
  /\ rpmWindows' = l[Len(l)].w

ApplyMain(y, st, d) ==
  /\ pc' = y.pc
  /\ main' = y.main
  /\ imageContext' = y.imageContext
  /\ approvalCondition' = y.approvalCondition
  /\ search' = y.search
  /\ IF y.pc = "personas"
       THEN ApplyLaunch(LaunchPersonas(st, y.w, d, now))
       ELSE /\ rpmWindows' = y.w
            /\ UNCHANGED << persona, responses, trail >>

\* deliberate() is called: it runs up to its first await.
Deliberate ==
  /\ pc = "idle"
  /\ IF hasImage
       THEN ApplyMain(
              MainYield("image",
                        [ i |-> 1, call |-> Call(DATA_PROCESSING_MODEL, "image"),
                          held |-> NoText ],
                        recordModelRequest(rpmWindows, DATA_PROCESSING_MODEL, now),
                        NoText, NoText, NoSearch),
              store, tpdWindows)
       ELSE ApplyMain(ExtractLoop(1, rpmWindows, NoText, now), store, tpdWindows)
  /\ UNCHANGED << now, store, tpdWindows, hasImage, cls, deviations,
                  consensusVars, down, mainTrail, botVars, probeVars,
                  clientVars, sessionVars >>

\* The call deliberate() itself awaits (image description, condition
\* extraction, search) settles, and deliberate() runs to its next await.
MainReply(reply) ==
  /\ pc \in { "image", "extract", "search" }
  /\ reply \in RepliesTo(main.call, deviations)
  /\ deviations' = deviations + CostOf(main.call, reply)
  /\ LET c == chat(main.call.model, reply, store, tpdWindows, now)
     IN  /\ store' = c.store
         /\ tpdWindows' = c.tpd
         /\ mainTrail' = Append(mainTrail,
                                [ model  |-> main.call.model, op |-> main.call.op,
                                  result |-> ResultOf(main.call.op, c.out) ])
         /\ ApplyMain(MainResume(c.out, rpmWindows, now), c.store, c.tpd)
  /\ UNCHANGED << now, hasImage, cls, consensusVars, down, botVars, probeVars,
                  clientVars, sessionVars >>

ApplyPersona(p, y) ==
  /\ persona' = [ persona EXCEPT ![p] = y.ps ]
  /\ responses' = IF y.resp.set THEN [ responses EXCEPT ![p] = y.resp ]
                  ELSE responses
  /\ trail' = [ trail EXCEPT ![p] = [ calls   |-> @.calls \o y.calls,
                                      skipped |-> @.skipped \o y.skipped,
                                      failed  |-> @.failed \o y.failed ] ]
  /\ rpmWindows' = y.w

\* The call a persona awaits settles, and its queryPersona() runs to its next
\* await or returns.
PersonaReply(p, reply) ==
  /\ pc = "personas"
  /\ persona[p].st \in { "chat", "purify", "condense" }
  /\ reply \in RepliesTo(persona[p].call, deviations)
  /\ deviations' = deviations + CostOf(persona[p].call, reply)
  /\ LET c == chat(persona[p].call.model, reply, store, tpdWindows, now)
     IN  /\ store' = c.store
         /\ tpdWindows' = c.tpd
         /\ ApplyPersona(p, PersonaResume(p, persona[p], c.out, c.store,
                                          rpmWindows, c.tpd, now))
  /\ UNCHANGED << now, pc, hasImage, main, imageContext, approvalCondition,
                  search, cls, consensusVars, down, mainTrail, botVars, probeVars,
                  clientVars, sessionVars >>

\* The three classifications have run to their first await, or returned.
ApplyClassifiers(l) ==
  /\ cls' = [ p \in Personas |-> l[OrderOf(p)].c ]
  /\ rpmWindows' = l[Len(l)].w

\* Promise.allSettled resolves; the responses are unwrapped and step 5 starts.
PersonasSettled ==
  /\ pc = "personas"
  /\ AllSettled(persona)
  /\ ApplyClassifiers(LaunchClassifiers(responses, rpmWindows, now))
  /\ pc' = "classify"
  /\ UNCHANGED << now, store, tpdWindows, hasImage, main, imageContext,
                  approvalCondition, search, persona, responses, trail,
                  deviations, consensusVars, down, mainTrail, botVars, probeVars,
                  clientVars, sessionVars >>

\* The call a classifier awaits settles, and its classifyVerdict() runs to its
\* next await or returns.
ClsReply(p, reply) ==
  /\ pc = "classify"
  /\ cls[p].st = "chat"
  /\ reply \in RepliesTo(cls[p].call, deviations)
  /\ deviations' = deviations + CostOf(cls[p].call, reply)
  /\ LET c == chat(cls[p].call.model, reply, store, tpdWindows, now)
         y == ClsResume(cls[p], c.out, rpmWindows, now)
     IN  /\ store' = c.store
         /\ tpdWindows' = c.tpd
         /\ cls' = [ cls EXCEPT ![p] =
                       [ y.c EXCEPT !.results =
                           Append(cls[p].results,
                                  [ result |-> ResultOf("classify", c.out),
                                    tag    |-> c.out.content.tag ]) ] ]
         /\ rpmWindows' = y.w
  /\ UNCHANGED << now, pc, hasImage, main, imageContext, approvalCondition,
                  search, persona, responses, trail, consensusVars, down,
                  mainTrail, botVars, probeVars,
                  clientVars, sessionVars >>

\* Promise.all resolves; the verdicts are written and deliberate() returns.
ClassifySettled ==
  /\ pc = "classify"
  /\ \A p \in Personas : cls[p].st = "done"
  /\ responses' = [ p \in Personas |->
                      [ responses[p] EXCEPT !.verdict = cls[p].verdict ] ]
  /\ pc' = "done"
  /\ UNCHANGED << trackerVars, hasImage, main, imageContext, approvalCondition,
                  search, persona, trail, cls, deviations, consensusVars, down,
                  mainTrail, botVars, probeVars,
                  clientVars, sessionVars >>

\* ------------------------------------------------------------------------
\* handleDeliberation, after deliberate() has returned (bot.ts)
\* ------------------------------------------------------------------------

\* result.melchior.error && result.balthasar.error && result.casper.error
allFailed(rs) == \A p \in Personas : rs[p].error

\* The bot replies: the error message when all three failed, else the
\* rendered deliberation with its computeDeliberationResult.
HandleDeliberation ==
  /\ pc = "done"
  /\ report = ""
  /\ IF allFailed(responses)
       THEN /\ report' = "error"
            /\ UNCHANGED outcome
       ELSE /\ report' = "result"
            /\ outcome' = computeDeliberationResult(responses[MELCHIOR].verdict,
                                                    responses[BALTHASAR].verdict,
                                                    responses[CASPER].verdict)
  /\ UNCHANGED << trackerVars, taskVars, verdictsIn, reorders, down, mainTrail,
                  probeVars,
                  clientVars, sessionVars >>

\* ------------------------------------------------------------------------
\* Initial states and specifications
\* ------------------------------------------------------------------------

\* A scenario is a request and the tracker as initRateLimits() loaded it from
\* KV: whether the request carries an image, the models whose persisted header
\* data shows a nearly spent daily quota, the models whose persisted RPM
\* window is full, and the age of that window.
Scenario(image, spent, full, age) ==
  [ image |-> image, spent |-> spent, full |-> full, age |-> age, down |-> {} ]

\* The scenario s during an outage of the provider for some models.
Outage(s, models) == [ s EXCEPT !.down = models ]

Scenarios ==
  { Scenario(FALSE, {}, {}, 0),
    Scenario(TRUE, {}, {}, 0),
    Scenario(FALSE, { QWEN3_32B }, {}, 0),
    Scenario(FALSE, { QWEN3_32B, LLAMA4_MAVERICK }, {}, 0),
    Scenario(FALSE, { QWEN3_32B, LLAMA4_MAVERICK, EMERGENCY_MODEL }, {}, 0),
    Scenario(FALSE, { QWEN3_32B, LLAMA4_MAVERICK, LLAMA33_70B, GPT_OSS_120B,
                      KIMI_K2, KIMI_K2_0905 }, {}, 0),
    Scenario(FALSE, { KIMI_K2 }, { LLAMA33_70B, GPT_OSS_120B }, 0),
    Scenario(FALSE, {}, { LLAMA33_70B }, ElapsedMs),
    Outage(Scenario(FALSE, { LLAMA33_70B, GPT_OSS_120B, KIMI_K2, KIMI_K2_0905 },
                    {}, 0),
           { EMERGENCY_MODEL }),
    Outage(Scenario(TRUE, {}, {}, 0), MODELS \ { QWEN3_32B }),
    Outage(Scenario(TRUE, {}, {}, 0), MODELS) }

LoadedStore(spent, clk) ==
  [ m \in spent |-> updateFromHeaders(EmptyMap, m, BusyHeaders, clk)[m] ]
LoadedWindows(full, clk) ==
  [ m \in full |-> [ k \in 1..MODEL_LIMITS[m].rpm |-> clk ] ]

InitTasks ==
  /\ pc = "idle"
  /\ main = IdleMain
  /\ imageContext = NoText
  /\ approvalCondition = NoText
  /\ search = NoSearch
  /\ persona = [ p \in Personas |-> IdlePersona ]
  /\ responses = [ p \in Personas |-> NoResponse ]
  /\ trail = [ p \in Personas |-> NoTrail ]
  /\ cls = [ p \in Personas |-> IdleCls ]
  /\ deviations = 0
  /\ mainTrail = << >>
  /\ report = ""

Init ==
  /\ now = TPD_WINDOW_MS
  /\ \E s \in Scenarios :
       /\ hasImage = s.image
       /\ store = LoadedStore(s.spent, now)
       /\ rpmWindows = LoadedWindows(s.full, now - s.age)
       /\ down = s.down
  /\ tpdWindows = EmptyMap
  /\ InitTasks
  /\ verdictsIn = << "REFUSE", "REFUSE", "REFUSE" >>
  /\ outcome = ""
  /\ reorders = 0
  /\ probe = NoProbe
  /\ steps = 0
  /\ InitClient
  /\ session = NoSession
  /\ InitHandlers

Next ==
  \/ Deliberate
  \/ \E reply \in ExpectedReplies(main.call.op) \cup DeviantReplies(main.call.op) :
       MainReply(reply)
  \/ \E p \in Personas :
       \E reply \in ExpectedReplies(persona[p].call.op)
                      \cup DeviantReplies(persona[p].call.op) :
         PersonaReply(p, reply)
  \/ PersonasSettled
  \/ \E p \in Personas :
       \E reply \in ExpectedReplies("classify") \cup DeviantReplies("classify") :
         ClsReply(p, reply)
  \/ ClassifySettled
  \/ HandleDeliberation

Spec == Init /\ [][Next]_vars

\* ------------------------------------------------------------------------
\* The consensus function on its own
\* ------------------------------------------------------------------------

MaxReorders == 2

Permutations3 ==
  { f \in [ 1..3 -> 1..3 ] : \A i, j \in 1..3 : i # j => f[i] # f[j] }

VerdictRank(v) ==
  CASE v = "APPROVE" -> 1 [] v = "DENY" -> 2 [] v = "CONDITIONAL" -> 3 [] OTHER -> 4

\* One triple for every multiset of three verdicts; Reorder makes the others.
SortedTriples ==
  { v \in [ 1..3 -> Verdicts ] :
      VerdictRank(v[1]) <= VerdictRank(v[2]) /\ VerdictRank(v[2]) <= VerdictRank(v[3]) }

InitConsensus ==
  /\ now = TPD_WINDOW_MS
  /\ store = EmptyMap
  /\ rpmWindows = EmptyMap
  /\ tpdWindows = EmptyMap
  /\ hasImage = FALSE
  /\ InitTasks
  /\ verdictsIn \in SortedTriples
  /\ outcome = ""
  /\ reorders = 0
  /\ down = {}
  /\ probe = NoProbe
  /\ steps = 0
  /\ InitClient
  /\ session = NoSession
  /\ InitHandlers

\* computeDeliberationResult is applied to the three verdicts.
Consensus ==
  /\ outcome = ""
  /\ outcome' = computeDeliberationResult(verdictsIn[1], verdictsIn[2], verdictsIn[3])
  /\ UNCHANGED << verdictsIn, reorders, trackerVars, taskVars, down, mainTrail,
                  botVars, probeVars,
                  clientVars, sessionVars >>

\* The same verdicts come from the personas in another order, and the result
\* is computed again.
Reorder(f) ==
  /\ outcome # ""
  /\ reorders < MaxReorders
  /\ verdictsIn' = [ i \in 1..3 |-> verdictsIn[f[i]] ]
  /\ outcome' = computeDeliberationResult(verdictsIn[f[1]], verdictsIn[f[2]],
                                          verdictsIn[f[3]])
  /\ reorders' = reorders + 1
  /\ UNCHANGED << trackerVars, taskVars, down, mainTrail, botVars, probeVars,
                  clientVars, sessionVars >>

NextConsensus == Consensus \/ \E f \in Permutations3 : Reorder(f)

SpecConsensus == InitConsensus /\ [][NextConsensus]_vars

\* ------------------------------------------------------------------------
\* The tracker on its own (groq/ratelimits.ts), with time passing
\* ------------------------------------------------------------------------

MaxSteps == 3

\* The models observed: one with a finite daily token limit, one without.
ObservedModels == { LLAMA33_70B, COMPOUND }

\* Tokens of a daily accumulator one call short of the skip threshold.
SeedTokens == 94000

\* What initRateLimits() may load for a model: nothing, or a full RPM window
\* and/or a daily accumulator, both just written.
SeedWindows(m, full, clk) == IF full THEN LoadedWindows({ m }, clk) ELSE EmptyMap
SeedTpd(m, used, clk) ==
  IF used THEN recordModelTokens(EmptyMap, m, SeedTokens, clk) ELSE EmptyMap

\* Header sets a response may carry besides BusyHeaders and CalmHeaders: no
\* reset durations; only the remaining requests; more remaining than the limit;
\* only the three token headers.
NoResetHeaders ==
  [ n \in { "limit-requests", "remaining-requests", "limit-tokens",
            "remaining-tokens" } |-> BusyHeaders[n] ]
RemainingOnlyHeaders == [ n \in { "remaining-requests" } |-> 10 ]
RefilledHeaders ==
  [ n \in DOMAIN BusyHeaders |->
      IF n = "remaining-requests" THEN 1200 ELSE BusyHeaders[n] ]
TokenOnlyHeaders ==
  [ n \in { "limit-tokens", "remaining-tokens", "reset-tokens" } |->
      BusyHeaders[n] ]
HeaderSets ==
  { BusyHeaders, CalmHeaders, NoResetHeaders, RemainingOnlyHeaders,
    RefilledHeaders, TokenOnlyHeaders, NoHeaders }

\* The lapses of time between two uses of the tracker.
Lapses == { 1, RPM_WINDOW_MS - 1, RPM_WINDOW_MS, TPD_WINDOW_MS }

InitTracker ==
  /\ now = TPD_WINDOW_MS
  /\ store = EmptyMap
  /\ \E m \in ObservedModels, full \in BOOLEAN, used \in BOOLEAN :
       /\ rpmWindows = SeedWindows(m, full, now)
       /\ tpdWindows = SeedTpd(m, used, now)
       /\ probe = [ NoProbe EXCEPT !.model = m ]
  /\ steps = 0
  /\ InitClient
  /\ session = NoSession
  /\ InitHandlers
  /\ hasImage = FALSE
  /\ InitTasks
  /\ down = {}
  /\ verdictsIn = << "REFUSE", "REFUSE", "REFUSE" >>
  /\ outcome = ""
  /\ reorders = 0

\* What the tracker's writers leave alone; a write makes the last reading stale.
Written ==
  /\ steps < MaxSteps
  /\ steps' = steps + 1
  /\ probe' = [ NoProbe EXCEPT !.model = probe.model ]
  /\ UNCHANGED << taskVars, consensusVars, down, mainTrail, botVars,
                  clientVars, sessionVars >>

\* recordModelRequest(model)
RequestRecorded ==
  /\ Written
  /\ rpmWindows' = recordModelRequest(rpmWindows, probe.model, now)
  /\ UNCHANGED << now, store, tpdWindows >>

\* recordModelTokens(model, tokens)
TokensRecorded ==
  /\ Written
  /\ tpdWindows' = recordModelTokens(tpdWindows, probe.model, TokensPerCall, now)
  /\ UNCHANGED << now, store, rpmWindows >>

\* updateFromHeaders(model, headers)
HeadersReceived(headers) ==
  /\ Written
  /\ store' = updateFromHeaders(store, probe.model, headers, now)
  /\ UNCHANGED << now, rpmWindows, tpdWindows >>

\* Date.now() advances between two uses of the tracker.
TimePasses(dt) ==
  /\ Written
  /\ now' = now + dt
  /\ UNCHANGED << store, rpmWindows, tpdWindows >>

\* shouldSkipModel(model): getLoadInfo(model), whose rpmUsagePercent prunes
\* the RPM window, and the decision taken on it.
LoadRead ==
  /\ rpmWindows' = rpmPruned(rpmWindows, probe.model, now)
  /\ probe' = [ model |-> probe.model,
                load  |-> getLoadInfo(store, rpmWindows, tpdWindows,
                                      probe.model, now),
                skip  |-> shouldSkipModel(store, rpmWindows, tpdWindows,
                                          probe.model, now),
                read  |-> TRUE ]
  /\ UNCHANGED << now, store, tpdWindows, steps, taskVars, consensusVars, down,
                  mainTrail, botVars, clientVars, sessionVars >>

NextTracker ==
  \/ RequestRecorded
  \/ TokensRecorded
  \/ \E headers \in HeaderSets : HeadersReceived(headers)
  \/ \E dt \in Lapses : TimePasses(dt)
  \/ LoadRead

SpecTracker == InitTracker /\ [][NextTracker]_vars

\* ------------------------------------------------------------------------
\* GroqClient.chat step by step, under dataChat, with time passing
\* (groq/client.ts, magi/engine.ts, storage.ts)
\* ------------------------------------------------------------------------

FETCH_TIMEOUT_MS == 30000

MaxLapses == 1

\* Date.now() when the process has loaded its tracker.
StartTime == TPD_WINDOW_MS

\* An RPM window loaded by initRateLimits() that is two requests short of
\* the model's limit, written just before the process started.
NearWindow(m, clk) ==
  [ x \in { m } |-> [ k \in 1..(MODEL_LIMITS[m].rpm - 2) |-> clk - 1 ] ]

\* A 200 response whose body response.json() rejects.
BadJson == [ Ok(Text(9, FALSE, 0)) EXCEPT !.json = FALSE ]

\* The responses fetch() may resolve with.
ChatReplies == { Ok(Text(9, FALSE, 0)), HttpError(429, BusyHeaders), BadJson }

\* kv.set(key, value): the entries of one kind after the write.
kvSet(entries, model, value, up) ==
  IF up THEN MapSet(entries, model, value) ELSE entries

\* A variant of the save that differs from the code: the rejection is thrown
\* into the caller.
saveSettled_Propagates(up) == IF up THEN "saved" ELSE "thrown"

\* saveRateLimitInfo / saveRpmWindow / saveTpdTracking: kv.set(...).catch(log).
\* What the caller of the save gets when the write is rejected.
saveSettled(up) == IF up THEN "saved" ELSE "logged"

\* A variant of chat() that differs from the code: issuing a request starts
\* the model's window afresh.
chatIssue_Restarts(w, model, clk) == MapSet(w, model, << clk >>)

\* chat(), before anything is sent: recordModelRequest(options.model).
chatIssue(w, model, clk) == recordModelRequest(w, model, clk)

\* A variant of chat() that differs from the code: the headers are read only
\* from a successful response.
chatHeaders_OnlyOnSuccess(st, model, reply, clk) ==
  IF reply.status = 200 THEN updateFromHeaders(st, model, reply.headers, clk)
  ELSE st

\* chat(), from the response of fetch() to the check of response.ok:
\* updateFromHeaders on every response.
chatHeaders(st, model, reply, clk) ==
  updateFromHeaders(st, model, reply.headers, clk)

\* A variant of chat() that differs from the code: the tokens are recorded
\* before the status is checked.
chatBody_CountsFailures(d, model, reply, clk) ==
  [ ok  |-> reply.status = 200 /\ reply.json,
    tpd |-> recordModelTokens(d, model, reply.tokens, clk) ]

\* A variant of chat() that differs from the code: the accumulator is set
\* to the tokens of the call, whatever it held.
chatBody_Overwrites(d, model, reply, clk) ==
  IF reply.status # 200 \/ ~reply.json
    THEN [ ok |-> FALSE, tpd |-> d ]
    ELSE [ ok |-> TRUE,
           tpd |-> MapSet(d, model,
                          [ tokens   |-> reply.tokens,
                            dayStart |-> IF model \in DOMAIN d
                                           THEN d[model].dayStart ELSE clk ]) ]

\* chat(), from the check of response.ok on, once the body has been read: the
\* throw or the return, and the TPD accumulators left.
chatBody(d, model, reply, clk) ==
  IF reply.status # 200 \/ ~reply.json
    THEN [ ok |-> FALSE, tpd |-> d ]
    ELSE [ ok |-> TRUE, tpd |-> recordModelTokens(d, model, reply.tokens, clk) ]

\* The models a caller of chat() goes through: dataChat() loops over
\* DATA_MODELS, describeImage() makes one call.
ModelsOf(c) ==
  IF c = "dataChat" THEN DATA_MODELS ELSE << DATA_PROCESSING_MODEL >>

\* The model of the call that caller c is at.
ModelOf(c) == ModelsOf(c)[callers[c].i]

\* Caller c, in state k, once its chat() has ended: returned with the
\* result, at the next iteration of its loop, or out of its last call with
\* the error.
Ended(c, k, reply, how, lost) ==
  [ k EXCEPT
      !.st = IF how = "ok" THEN "returned"
             ELSE IF k.i < Len(ModelsOf(c)) THEN "idle" ELSE "threw",
      !.i = IF how # "ok" /\ k.i < Len(ModelsOf(c)) THEN k.i + 1 ELSE k.i,
      !.reply = Reject,
      !.lost = FALSE,
      !.log = Append(k.log,
                [ model  |-> ModelsOf(c)[k.i], at |-> k.startedAt,
                  sent   |-> k.st # "idle",
                  status |-> IF reply.kind = "http" THEN reply.status ELSE 0,
                  json   |-> reply.kind = "http" /\ reply.json,
                  tokens |-> IF how = "ok" THEN reply.tokens ELSE 0,
                  countedAt |-> IF how = "ok" THEN now ELSE 0,
                  ended  |-> how, lost |-> lost ]) ]

\* What was read of the tracker is stale once the tracker or the time changes.
ProbeStale == probe' = [ NoProbe EXCEPT !.model = probe.model ]

InitChat ==
  /\ now = StartTime
  /\ store = EmptyMap
  /\ \E near \in BOOLEAN, up \in BOOLEAN :
       /\ rpmWindows = IF near THEN NearWindow(DATA_MODELS[1], now) ELSE EmptyMap
       /\ tpdWindows = SeedTpd(DATA_MODELS[1], TRUE, now)
       /\ kv = [ EmptyKv EXCEPT !.up = up ]
  /\ callers = [ c \in Callers |-> IdleCaller ]
  /\ probe = [ NoProbe EXCEPT !.model = DATA_MODELS[1] ]
  /\ steps = 0
  /\ session = NoSession
  /\ InitHandlers
  /\ hasImage = FALSE
  /\ InitTasks
  /\ down = {}
  /\ verdictsIn = << "REFUSE", "REFUSE", "REFUSE" >>
  /\ outcome = ""
  /\ reorders = 0

\* chat() up to its await of fetch(): recordModelRequest, with its save.
ChatStart(c) ==
  /\ callers[c].st = "idle"
  /\ rpmWindows' = chatIssue(rpmWindows, ModelOf(c), now)
  /\ kv' = [ kv EXCEPT !.rpm = kvSet(kv.rpm, ModelOf(c),
                                     rpmWindows'[ModelOf(c)], kv.up) ]
  /\ callers' =
       [ callers EXCEPT ![c] =
           IF saveSettled(kv.up) = "thrown"
             THEN Ended(c, [ callers[c] EXCEPT !.startedAt = now ], Reject, "threw",
                        TRUE)
             ELSE [ callers[c] EXCEPT !.st = "fetch", !.startedAt = now,
                                      !.lost = ~kv.up ] ]
  /\ ProbeStale
  /\ UNCHANGED << now, store, tpdWindows, steps, taskVars, consensusVars, down,
                  mainTrail, botVars, sessionVars >>

\* fetch() resolves with a response before the timer fires: updateFromHeaders,
\* with its save when it stored a snapshot.
FetchResponds(c, reply) ==
  /\ callers[c].st = "fetch"
  /\ now - callers[c].startedAt < FETCH_TIMEOUT_MS
  /\ store' = chatHeaders(store, ModelOf(c), reply, now)
  /\ kv' = IF store' = store THEN kv
           ELSE [ kv EXCEPT !.info = kvSet(kv.info, ModelOf(c),
                                           store'[ModelOf(c)], kv.up) ]
  /\ callers' =
       [ callers EXCEPT ![c] =
           IF store' # store /\ saveSettled(kv.up) = "thrown"
             THEN Ended(c, callers[c], reply, "threw", TRUE)
             ELSE [ callers[c] EXCEPT
                      !.st = "body", !.reply = reply,
                      !.lost = callers[c].lost \/ (store' # store /\ ~kv.up) ] ]
  /\ ProbeStale
  /\ UNCHANGED << now, rpmWindows, tpdWindows, steps, taskVars, consensusVars,
                  down, mainTrail, botVars, sessionVars >>

\* fetch() rejects before the timer fires (network error): chat() throws.
FetchRejects(c) ==
  /\ callers[c].st = "fetch"
  /\ now - callers[c].startedAt < FETCH_TIMEOUT_MS
  /\ callers' = [ callers EXCEPT ![c] =
                    Ended(c, callers[c], Reject, "threw", callers[c].lost) ]
  /\ UNCHANGED << trackerVars, probeVars, kv, taskVars, consensusVars, down,
                  mainTrail, botVars, sessionVars >>

\* The timer set before fetch() fires FETCH_TIMEOUT_MS after the start while
\* fetch() is pending: controller.abort(), fetch() rejects, chat() throws.
Abort(c) ==
  /\ callers[c].st = "fetch"
  /\ now' = Max(now, callers[c].startedAt + FETCH_TIMEOUT_MS)
  /\ callers' = [ callers EXCEPT ![c] =
                    Ended(c, callers[c], Reject, "threw", callers[c].lost) ]
  /\ ProbeStale
  /\ UNCHANGED << store, rpmWindows, tpdWindows, steps, kv, taskVars,
                  consensusVars, down, mainTrail, botVars, sessionVars >>

\* The body of the response has been read (response.text() of an error,
\* response.json() otherwise); the timer was cleared when fetch() resolved.
BodyArrives(c) ==
  /\ callers[c].st = "body"
  /\ LET r == chatBody(tpdWindows, ModelOf(c), callers[c].reply, now)
         thrown == r.ok /\ saveSettled(kv.up) = "thrown"
     IN  /\ tpdWindows' = r.tpd
         /\ kv' = IF r.ok
                    THEN [ kv EXCEPT !.tpd = kvSet(kv.tpd, ModelOf(c),
                                                   r.tpd[ModelOf(c)], kv.up) ]
                    ELSE kv
         /\ callers' =
              [ callers EXCEPT ![c] =
                  Ended(c, callers[c], callers[c].reply,
                        IF r.ok /\ ~thrown THEN "ok" ELSE "threw",
                        callers[c].lost \/ (r.ok /\ ~kv.up)) ]
  /\ ProbeStale
  /\ UNCHANGED << now, store, rpmWindows, steps, taskVars, consensusVars, down,
                  mainTrail, botVars, sessionVars >>

\* Date.now() advances.
ClientTimePasses(dt) ==
  /\ steps < MaxLapses
  /\ steps' = steps + 1
  /\ now' = now + dt
  /\ ProbeStale
  /\ UNCHANGED << store, rpmWindows, tpdWindows, clientVars, taskVars,
                  consensusVars, down, mainTrail, botVars, sessionVars >>

NextChat ==
  \/ \E c \in Callers : ChatStart(c)
  \/ \E c \in Callers, reply \in ChatReplies : FetchResponds(c, reply)
  \/ \E c \in Callers : FetchRejects(c)
  \/ \E c \in Callers : Abort(c)
  \/ \E c \in Callers : BodyArrives(c)
  \/ \E dt \in { RPM_WINDOW_MS, TPD_WINDOW_MS } : ClientTimePasses(dt)
  \/ LoadRead

SpecChat == InitChat /\ [][NextChat]_vars

\* The event loop runs a call that is ready to start, and a timer that was
\* set fires; nothing makes the body of a response arrive.
SpecChatFair ==
  /\ SpecChat
  /\ \A c \in Callers : WF_vars(ChatStart(c)) /\ WF_vars(Abort(c))

\* ------------------------------------------------------------------------
\* handleDeliberation, with the compression of the context (bot.ts,
\* magi/engine.ts)
\* ------------------------------------------------------------------------

CONTEXT_LIMIT == 800

MaxRequests == 2

\* The steps of deliberate(), in its order.
DeliberationSteps == << "image", "extract", "search", "personas", "classify" >>

\* What dataChat()'s call of chat() may hand compressContext: a throw, or a
\* text of some length (nothing but blanks, short, over the limit).
CompressReplies ==
  { [ ok |-> FALSE, len |-> 0 ], [ ok |-> TRUE, len |-> 0 ],
    [ ok |-> TRUE, len |-> 40 ], [ ok |-> TRUE, len |-> CONTEXT_LIMIT + 1 ] }

\* The catch of handleDeliberation: the thinking message is deleted and the
\* error message sent.
Caught(s) ==
  [ s EXCEPT !.pc = "done", !.thinking = FALSE,
             !.replies = Append(s.replies, "error") ]

\* The end of handleDeliberation's try block: the thinking message is deleted.
Finished(s) == [ s EXCEPT !.pc = "done", !.thinking = FALSE ]

\* A variant of handleDeliberation that differs from the code: the context
\* is compressed whoever sent the request.
afterReply_Always(s) ==
  [ s EXCEPT !.pc = "compress", !.compressions = s.compressions + 1, !.i = 1 ]

\* handleDeliberation once the reply is sent: compressContext is called for
\* a user that is identified.
afterReply(s) ==
  IF s.user
    THEN [ s EXCEPT !.pc = "compress", !.compressions = s.compressions + 1,
                    !.i = 1 ]
    ELSE Finished(s)

\* A variant of compressContext that differs from the code: an empty output
\* is returned as the summary.
compressed_EmptyKept(len) ==
  [ of |-> "new", len |-> Min(len, CONTEXT_LIMIT) ]

\* compressContext, once dataChat() has returned a text of that length: null
\* for an empty one, the text cut to CONTEXT_LIMIT otherwise.
compressed(len) ==
  IF len = 0 THEN NoSummary
  ELSE [ of |-> "new", len |-> IF len > CONTEXT_LIMIT THEN CONTEXT_LIMIT ELSE len ]

InitBot ==
  /\ \E user \in BOOLEAN, tooSoon \in BOOLEAN,
        stored \in { NoSummary, [ of |-> "stored", len |-> 300 ] } :
       session = [ NoSession EXCEPT !.user = user, !.tooSoon = tooSoon,
                                    !.stored = stored ]
  /\ InitHandlers
  /\ now = TPD_WINDOW_MS
  /\ store = EmptyMap
  /\ rpmWindows = EmptyMap
  /\ tpdWindows = EmptyMap
  /\ probe = NoProbe
  /\ steps = 0
  /\ InitClient
  /\ hasImage = FALSE
  /\ InitTasks
  /\ down = {}
  /\ verdictsIn = << "REFUSE", "REFUSE", "REFUSE" >>
  /\ outcome = ""
  /\ reorders = 0

BotFrame ==
  UNCHANGED << trackerVars, taskVars, consensusVars, down, mainTrail, botVars,
               probeVars, clientVars, handlerVars, saveVars >>

\* handleDeliberation up to its try block: the cooldown check and the
\* thinking message.
Begin ==
  /\ session.pc = "idle"
  /\ session' =
       IF session.user /\ session.tooSoon
         THEN [ session EXCEPT !.pc = "done",
                               !.replies = Append(@, "rateLimit") ]
         ELSE [ session EXCEPT !.pc = "context", !.thinking = TRUE,
                               !.replies = Append(@, "thinking") ]
  /\ BotFrame

\* getUserContext for an identified user; a rejected read is caught.
LoadContext(ok) ==
  /\ session.pc = "context"
  /\ ok \/ session.user
  /\ session' =
       IF ok
         THEN [ session EXCEPT
                  !.pc = "deliberate",
                  !.prev = IF session.user THEN session.stored ELSE NoSummary ]
         ELSE Caught(session)
  /\ BotFrame

\* deliberate() goes from one of its steps to the next.
DeliberationStep ==
  /\ session.pc = "deliberate"
  /\ session.phase < Len(DeliberationSteps)
  /\ session' = [ session EXCEPT !.phase = @ + 1 ]
  /\ BotFrame

\* deliberate() returns after its last step.
DeliberationEnds(result) ==
  /\ session.pc = "deliberate"
  /\ session.phase = Len(DeliberationSteps)
  /\ session' = [ session EXCEPT !.pc = "report", !.result = result ]
  /\ BotFrame

\* handleDeliberation from the result to the reply: the error message when
\* all three failed; otherwise the picture with its caption, or the text
\* when the picture could not be sent; a text that cannot be sent is caught.
Report(photo, text) ==
  /\ session.pc = "report"
  /\ session' =
       IF session.result = "allFailed"
         THEN [ session EXCEPT !.pc = "done", !.replies = Append(@, "error") ]
       ELSE IF photo
         THEN afterReply([ session EXCEPT !.replies = Append(@, "photo") ])
       ELSE IF text
         THEN afterReply([ session EXCEPT !.replies = Append(@, "text") ])
       ELSE Caught(session)
  /\ BotFrame

\* compressContext: dataChat()'s call on its current model ends. A throw
\* moves dataChat() to the next model, or out of the last one into
\* compressContext's catch; a text is returned as it is.
CompressResponds(reply) ==
  /\ session.pc = "compress"
  /\ session' =
       IF ~reply.ok /\ session.i < Len(DATA_MODELS)
         THEN [ session EXCEPT !.i = @ + 1 ]
       ELSE IF ~reply.ok
         THEN Finished([ session EXCEPT !.why = "exhausted" ])
       ELSE IF compressed(reply.len) = NoSummary
         THEN Finished([ session EXCEPT !.why = IF reply.len = 0 THEN "empty"
                                                ELSE "" ])
       ELSE [ session EXCEPT
                !.pc = "save", !.summary = compressed(reply.len),
                !.why = IF reply.len = 0 THEN "empty" ELSE "" ]
  /\ BotFrame

\* setUserContext; a rejected write is caught and logged.
ContextSaved(ok) ==
  /\ session.pc = "save"
  /\ session' =
       Finished([ session EXCEPT
                    !.stored = IF ok THEN session.summary ELSE @ ])
  /\ BotFrame

\* The next message of the same sender is handled: the summary under the
\* user's key is what the last run left there.
NextRequest(tooSoon) ==
  /\ session.pc = "done"
  /\ session.request < MaxRequests
  /\ session' =
       [ NoSession EXCEPT
           !.request = session.request + 1,
           !.user = session.user,
           !.tooSoon = tooSoon,
           !.stored = IF session.stored = NoSummary THEN NoSummary
                      ELSE [ session.stored EXCEPT !.of = "stored" ] ]
  /\ BotFrame

NextBot ==
  \/ Begin
  \/ \E tooSoon \in BOOLEAN : NextRequest(tooSoon)
  \/ \E ok \in BOOLEAN : LoadContext(ok)
  \/ DeliberationStep
  \/ \E result \in { "normal", "allFailed" } : DeliberationEnds(result)
  \/ \E photo \in BOOLEAN, text \in BOOLEAN : Report(photo, text)
  \/ \E reply \in CompressReplies : CompressResponds(reply)
  \/ \E ok \in BOOLEAN : ContextSaved(ok)

SpecBot == InitBot /\ [][NextBot]_vars

\* ------------------------------------------------------------------------
\* handleDeliberation for one identified user, with the user's entries in
\* Deno KV and several requests in progress (bot.ts, storage.ts)
\* ------------------------------------------------------------------------

\* The languages deliberate() may resolve, the user's last one being "en".
Languages == { "ja" }

\* handleDeliberation up to its try block: getUserPref, the cooldown check on
\* getLastRequest (an entry that has expired reads as none, and is older than
\* the cooldown anyway), and the thinking message.
cooldownCheck(run, u, clk) ==
  IF u.lastRequest # 0 /\ clk - u.lastRequest < COOLDOWN_MS
    THEN [ run EXCEPT !.pc = "done", !.pref = u.pref,
                      !.replies = Append(@, "rateLimit") ]
    ELSE [ run EXCEPT !.pc = "context", !.pref = u.pref, !.thinking = TRUE,
                      !.replies = Append(@, "thinking") ]

\* A variant of handleDeliberation that differs from the code: the request
\* is recorded whatever the result.
afterPref_RecordsAll(run) == [ run EXCEPT !.pc = "stamp" ]

\* handleDeliberation after setUserPref: when all three failed the error
\* message is sent and the function returns; otherwise it goes on to record
\* the request.
afterPref(run) ==
  IF run.result = "allFailed"
    THEN [ run EXCEPT !.pc = "done", !.replies = Append(@, "error") ]
    ELSE [ run EXCEPT !.pc = "stamp" ]

InitRequests ==
  /\ now = StartTime
  /\ requests = [ r \in Runs |-> NoRun ]
  /\ \E pref \in { [ NoPref EXCEPT !.fixedLang = "en" ],
                   [ NoPref EXCEPT !.detectedLang = "en" ] } :
       userData = [ NoUser EXCEPT
                      !.pref = pref,
                      !.context = [ of |-> "stored", len |-> 300 ] ]
  /\ pending = {}
  /\ session = NoSession
  /\ store = EmptyMap
  /\ rpmWindows = EmptyMap
  /\ tpdWindows = EmptyMap
  /\ probe = NoProbe
  /\ steps = 0
  /\ InitClient
  /\ hasImage = FALSE
  /\ InitTasks
  /\ down = {}
  /\ verdictsIn = << "REFUSE", "REFUSE", "REFUSE" >>
  /\ outcome = ""
  /\ reorders = 0

RequestFrame ==
  UNCHANGED << taskVars, consensusVars, down, mainTrail, botVars, probe,
               clientVars, session, saveVars >>

\* A request of the user reaches handleDeliberation.
Arrives(r) ==
  /\ requests[r].pc = "idle"
  /\ requests' = [ requests EXCEPT ![r] = cooldownCheck(@, userData, now) ]
  /\ UNCHANGED << trackerVars, steps, userData >>
  /\ RequestFrame

\* getUserContext; a rejected read is caught. deliberate() is called next.
ContextLoaded(r, ok) ==
  /\ requests[r].pc = "context"
  /\ requests' =
       [ requests EXCEPT ![r] =
           IF ok THEN [ @ EXCEPT !.pc = "deliberate", !.prev = userData.context ]
           ELSE Caught(@) ]
  /\ UNCHANGED << trackerVars, steps, userData >>
  /\ RequestFrame

\* deliberate() returns, in the language that was fixed or that it resolved.
Deliberated(r, result, lang) ==
  /\ requests[r].pc = "deliberate"
  /\ requests' =
       [ requests EXCEPT ![r] =
           [ @ EXCEPT !.pc = "pref", !.result = result,
                      !.lang = IF requests[r].pref.fixedLang # ""
                                 THEN requests[r].pref.fixedLang
                               ELSE lang ] ]
  /\ UNCHANGED << trackerVars, steps, userData >>
  /\ RequestFrame

\* setUserPref with the language of the result, unless the user fixed one; a
\* rejected write is caught. Then the check of the three errors.
PrefSaved(r, ok) ==
  /\ requests[r].pc = "pref"
  /\ ok \/ requests[r].pref.fixedLang = ""
  /\ requests' =
       [ requests EXCEPT ![r] = IF ok THEN afterPref(@) ELSE Caught(@) ]
  /\ userData' =
       IF ok /\ requests[r].pref.fixedLang = ""
         THEN [ userData EXCEPT
                  !.pref = [ requests[r].pref EXCEPT
                               !.detectedLang = requests[r].lang ] ]
         ELSE userData
  /\ UNCHANGED << trackerVars, steps >>
  /\ RequestFrame

\* setLastRequest: Date.now() under the user's key; a rejected write is caught.
Stamped(r, ok) ==
  /\ requests[r].pc = "stamp"
  /\ requests' =
       [ requests EXCEPT ![r] =
           IF ok THEN [ @ EXCEPT !.pc = "count", !.stamped = now ]
           ELSE Caught(@) ]
  /\ userData' = IF ok THEN [ userData EXCEPT !.lastRequest = now ] ELSE userData
  /\ UNCHANGED << trackerVars, steps >>
  /\ RequestFrame

\* incrementQueryCount: an atomic sum of 1; a rejected commit is caught.
Counted(r, ok) ==
  /\ requests[r].pc = "count"
  /\ requests' =
       [ requests EXCEPT ![r] =
           IF ok THEN [ @ EXCEPT !.pc = "reply" ] ELSE Caught(@) ]
  /\ userData' = IF ok THEN [ userData EXCEPT !.queryCount = @ + 1 ] ELSE userData
  /\ UNCHANGED << trackerVars, steps >>
  /\ RequestFrame

\* The result is sent, as a picture or as text; when neither can be sent the
\* error is caught.
Replied(r, ok) ==
  /\ requests[r].pc = "reply"
  /\ requests' =
       [ requests EXCEPT ![r] =
           IF ok THEN [ @ EXCEPT !.pc = "compress",
                                 !.replies = Append(@, "result") ]
           ELSE Caught(@) ]
  /\ UNCHANGED << trackerVars, steps, userData >>
  /\ RequestFrame

\* compressContext returns a summary or null; setUserContext stores a summary
\* (a rejected write is logged), and the thinking message is deleted.
Compressed(r, summary, ok) ==
  /\ requests[r].pc = "compress"
  /\ ok \/ summary # NoSummary
  /\ requests' = [ requests EXCEPT ![r] = Finished(@) ]
  /\ userData' =
       IF ok /\ summary # NoSummary
         THEN [ userData EXCEPT !.context = summary ] ELSE userData
  /\ UNCHANGED << trackerVars, steps >>
  /\ RequestFrame

\* Date.now() advances while requests are handled.
RequestTimePasses(dt) ==
  /\ steps < MaxLapses
  /\ steps' = steps + 1
  /\ now' = now + dt
  /\ UNCHANGED << store, rpmWindows, tpdWindows, handlerVars >>
  /\ RequestFrame

NextRequests ==
  \/ \E r \in Runs : Arrives(r)
  \/ \E r \in Runs, ok \in BOOLEAN : ContextLoaded(r, ok)
  \/ \E r \in Runs, result \in { "normal", "allFailed" }, lang \in Languages :
       Deliberated(r, result, lang)
  \/ \E r \in Runs, ok \in BOOLEAN : PrefSaved(r, ok)
  \/ \E r \in Runs, ok \in BOOLEAN : Stamped(r, ok)
  \/ \E r \in Runs, ok \in BOOLEAN : Counted(r, ok)
  \/ \E r \in Runs, ok \in BOOLEAN : Replied(r, ok)
  \/ \E r \in Runs, summary \in { NoSummary, [ of |-> "new", len |-> 40 ] },
        ok \in BOOLEAN : Compressed(r, summary, ok)
  \/ \E dt \in { 1, COOLDOWN_MS } : RequestTimePasses(dt)

SpecRequests == InitRequests /\ [][NextRequests]_vars

\* ------------------------------------------------------------------------
\* The saves of the tracker in flight (groq/ratelimits.ts, storage.ts)
\* ------------------------------------------------------------------------

\* kv.set(["ratelimit", model, kind], value) as issued by the n-th write of
\* the tracker: the value is the one the tracker holds at that moment.
Save(kind, model, value, n) ==
  [ kind |-> kind, model |-> model, value |-> value, n |-> n ]

InitSaves ==
  /\ now = StartTime
  /\ store = EmptyMap
  /\ rpmWindows = EmptyMap
  /\ tpdWindows = EmptyMap
  /\ pending = {}
  /\ kv = EmptyKv
  /\ callers = [ c \in Callers |-> IdleCaller ]
  /\ steps = 0
  /\ probe = NoProbe
  /\ session = NoSession
  /\ requests = [ r \in Runs |-> NoRun ]
  /\ userData = NoUser
  /\ hasImage = FALSE
  /\ InitTasks
  /\ down = {}
  /\ verdictsIn = << "REFUSE", "REFUSE", "REFUSE" >>
  /\ outcome = ""
  /\ reorders = 0

SaveFrame ==
  UNCHANGED << now, store, taskVars, consensusVars, down, mainTrail, botVars,
               probe, callers, session, handlerVars >>

\* recordModelRequest(model): the window is written and its save issued,
\* without waiting for it.
RequestSaved(model) ==
  /\ steps < MaxSteps
  /\ steps' = steps + 1
  /\ rpmWindows' = recordModelRequest(rpmWindows, model, now)
  /\ pending' = pending \cup { Save("rpm", model, rpmWindows'[model], steps) }
  /\ UNCHANGED << tpdWindows, kv >>
  /\ SaveFrame

\* recordModelTokens(model, tokens): the accumulator is written and its save
\* issued, without waiting for it.
TokensSaved(model) ==
  /\ steps < MaxSteps
  /\ steps' = steps + 1
  /\ tpdWindows' = recordModelTokens(tpdWindows, model, TokensPerCall, now)
  /\ pending' = pending \cup { Save("tpd", model, tpdWindows'[model], steps) }
  /\ UNCHANGED << rpmWindows, kv >>
  /\ SaveFrame

\* One of the writes in flight settles, whichever, the n-th issued: Deno KV
\* applies it, or rejects it and the rejection is logged.
SaveSettles(n, ok) ==
  /\ \E w \in pending :
       /\ w.n = n
       /\ pending' = pending \ { w }
       /\ kv' = IF w.kind = "rpm"
                  THEN [ kv EXCEPT !.rpm = kvSet(@, w.model, w.value, ok) ]
                  ELSE [ kv EXCEPT !.tpd = kvSet(@, w.model, w.value, ok) ]
  /\ UNCHANGED << rpmWindows, tpdWindows, steps >>
  /\ SaveFrame

NextSaves ==
  \/ \E model \in ObservedModels : RequestSaved(model)
  \/ \E model \in ObservedModels : TokensSaved(model)
  \/ \E n \in 0..(MaxSteps - 1), ok \in BOOLEAN : SaveSettles(n, ok)

SpecSaves == InitSaves /\ [][NextSaves]_vars

\* ------------------------------------------------------------------------
\* Properties of the consensus function
\* ------------------------------------------------------------------------

\* The number of the three verdicts handed in that equal v.
Votes(v) == Cardinality({ i \in 1..3 : verdictsIn[i] = v })

\* C1: the consensus of three verdicts is approved when at least two are
\* APPROVE; else denied when at least two are DENY; else conditional when
\* APPROVE and CONDITIONAL together are at least two; else noConsensus.
\* REFUSE votes count for nothing, and a CONDITIONAL vote never counts
\* toward denied.
C1_ConsensusRule ==
  outcome # "" =>
    /\ outcome =
         IF Votes("APPROVE") >= 2 THEN "approved"
         ELSE IF Votes("DENY") >= 2 THEN "denied"
         ELSE IF Votes("APPROVE") + Votes("CONDITIONAL") >= 2 THEN "conditional"
         ELSE "noConsensus"
    /\ outcome = "denied" => Votes("DENY") >= 2

\* One DENY and two CONDITIONAL votes were reduced (to conditional, not denied).
C1_Witness ==
  /\ outcome = "conditional"
  /\ Votes("DENY") = 1
  /\ Votes("CONDITIONAL") = 2

\* C2: the consensus is defined for every triple of verdicts, is one of the
\* four outcomes, and is the same for every order of the same three verdicts.
C2_TotalAndSymmetric ==
  [][ /\ outcome = "" => outcome' \in DeliberationResults
      /\ outcome # "" => outcome' = outcome ]_vars

\* The verdicts were reordered, melchior's vote now being the odd one out.
C2_Witness ==
  /\ reorders > 0
  /\ outcome = "noConsensus"
  /\ verdictsIn = << "DENY", "REFUSE", "APPROVE" >>

\* ------------------------------------------------------------------------
\* Properties of the fallback chain of a persona
\* ------------------------------------------------------------------------

Range(s) == { s[k] : k \in DOMAIN s }

\* The position of a model in the chain of persona p.
ChainIndex(p, model) ==
  CHOOSE k \in 1..Len(ChainOf(p)) : ChainOf(p)[k] = model

IsPersonaCall(c) == c.op = "persona"

\* The models persona p has called so far, whatever for.
Called(p) == { trail[p].calls[k].model : k \in DOMAIN trail[p].calls }

\* The chat() calls of persona p that asked a model for its answer.
Attempts(p) == SelectSeq(trail[p].calls, IsPersonaCall)

\* Every model of persona p's chain was skipped or has failed.
Exhausted(p) ==
  \A k \in DOMAIN ChainOf(p) :
    ChainOf(p)[k] \in Range(trail[p].skipped) \cup Range(trail[p].failed)

\* C3, step: a call issued on a non-final model of a chain is issued on a
\* model shouldSkipModel does not hold for when the loop reaches it.  (The
\* tracker entries of a model change only by calls on that model, so they are
\* read in the state the step starts from.)
C3_NoCallOnSkipEligible ==
  \A p \in Personas :
    Len(trail'[p].calls) > Len(trail[p].calls) =>
      LET c == trail'[p].calls[Len(trail[p].calls) + 1]
      IN  (c.op = "persona" /\ ChainIndex(p, c.model) < Len(ChainOf(p))) =>
            ~shouldSkipModel(store, rpmWindows, tpdWindows, c.model, now)

\* C3, chain: a skipped model is never called, and once the primary model was
\* skipped and the fallback model has failed, the attempts are the fallback
\* model and the final model, and the response is the final model's.
C3_ChainAdvances ==
  \A p \in Personas :
    /\ Range(trail[p].skipped) \cap Called(p) = {}
    /\ ( /\ persona[p].st = "done"
         /\ trail[p].skipped = << ChainOf(p)[1] >>
         /\ ChainOf(p)[2] \in Range(trail[p].failed) )
       => /\ Attempts(p) = << Call(ChainOf(p)[2], "persona"),
                              Call(ChainOf(p)[3], "persona") >>
          /\ responses[p].set
          /\ responses[p].model = ChainOf(p)[3]

\* C3: a non-final model of a chain for which shouldSkipModel holds when the
\* loop reaches it is never called; when the next non-final model is attempted
\* and fails, the chain moves on and the final model's result is the response.
C3_SkipThenAdvance == [][ C3_NoCallOnSkipEligible /\ C3_ChainAdvances' ]_vars

\* Melchior's primary model was skipped, the fallback failed, and the final
\* model answered.
C3_Witness ==
  /\ persona[MELCHIOR].st = "done"
  /\ trail[MELCHIOR].skipped = << QWEN3_32B >>
  /\ trail[MELCHIOR].failed = << LLAMA4_MAVERICK >>
  /\ ~responses[MELCHIOR].error
  /\ responses[MELCHIOR].content.by = EMERGENCY_MODEL

\* C4: the last model of a chain is never skipped: when every model before it
\* was skipped or has failed it has been called, whatever its load, and the
\* loop never runs out of models without having called it.
C4_LastAlwaysAttempted ==
  \A p \in Personas :
    LET chain == ChainOf(p)
        last  == chain[Len(chain)]
    IN  /\ last \notin Range(trail[p].skipped)
        /\ responses[p].reason # "All models exhausted"
        /\ (\A k \in 1..(Len(chain) - 1) :
              chain[k] \in Range(trail[p].skipped) \cup Range(trail[p].failed))
           => last \in Called(p)

\* Melchior awaits a call on the emergency model, issued although
\* shouldSkipModel holds for that model.
C4_Witness ==
  /\ persona[MELCHIOR].st = "chat"
  /\ persona[MELCHIOR].call = Call(EMERGENCY_MODEL, "persona")
  /\ trail[MELCHIOR].skipped = << QWEN3_32B, LLAMA4_MAVERICK >>
  /\ shouldSkipModel(store, rpmWindows, tpdWindows, EMERGENCY_MODEL, now)

\* C5: the models of a chain are attempted in the order of the chain; every
\* attempt before the last one has failed; the rewrites that follow an
\* attempt stay on its model and no attempt follows them; and a response
\* without error names, in its model field, the model whose call produced its
\* content, which is the last model called.
C5_FirstSuccessStops ==
  \A p \in Personas :
    LET calls == trail[p].calls
        tries == Attempts(p)
    IN  /\ \A k \in 1..(Len(tries) - 1) :
             /\ ChainIndex(p, tries[k].model) < ChainIndex(p, tries[k + 1].model)
             /\ tries[k].model \in Range(trail[p].failed)
        /\ \A k \in 1..(Len(calls) - 1) :
             IF calls[k + 1].op = "persona"
               THEN calls[k].op = "persona"
               ELSE calls[k + 1].model = calls[k].model
        /\ (responses[p].set /\ ~responses[p].error) =>
             /\ persona[p].st = "done"
             /\ calls # << >>
             /\ responses[p].model = calls[Len(calls)].model
             /\ responses[p].model = tries[Len(tries)].model
             /\ responses[p].model \notin Range(trail[p].failed)
             /\ responses[p].content.by = responses[p].model

\* Melchior's primary model failed and the fallback model answered: the final
\* model was not called.
C5_Witness ==
  /\ persona[MELCHIOR].st = "done"
  /\ Attempts(MELCHIOR) = << Call(QWEN3_32B, "persona"),
                             Call(LLAMA4_MAVERICK, "persona") >>
  /\ ~responses[MELCHIOR].error
  /\ responses[MELCHIOR].model = LLAMA4_MAVERICK

\* C6: when every model of a chain was skipped or has failed, queryPersona has
\* returned a response: its content is the coreMalfunction message, its error
\* is set, and its verdict is REFUSE.
C6_ExhaustedChainReturns ==
  \A p \in Personas :
    Exhausted(p) =>
      /\ persona[p].st = "done"
      /\ responses[p].set
      /\ responses[p].content = t("coreMalfunction")
      /\ responses[p].error
      /\ responses[p].verdict = "REFUSE"

\* Melchior's two non-final models were skipped and the final one failed; the
\* deliberation has returned.
C6_Witness ==
  /\ pc = "done"
  /\ trail[MELCHIOR].skipped = << QWEN3_32B, LLAMA4_MAVERICK >>
  /\ trail[MELCHIOR].failed = << EMERGENCY_MODEL >>

\* ------------------------------------------------------------------------
\* Properties of the orchestration
\* ------------------------------------------------------------------------

\* The steps of deliberate(), in the order of the code.
PhaseRank(phase) ==
  CASE phase = "idle" -> 0 [] phase = "image" -> 1 [] phase = "extract" -> 2
    [] phase = "search" -> 3 [] phase = "personas" -> 4
    [] phase = "classify" -> 5 [] OTHER -> 6

\* This step issues a call of deliberate()'s own chain for `op`.
MainIssues(op) == main' # main /\ main'.call.op = op

\* This step issues a call of some persona.
PersonaIssues == \E p \in Personas : Len(trail'[p].calls) > Len(trail[p].calls)

\* C7, state: while the personas run every one of them has been launched, and
\* once deliberate() is past them every one has settled and has a response.
C7_AllLaunchedAllAwaited ==
  /\ pc = "personas" => \A p \in Personas : trail[p].calls # << >>
  /\ pc \in { "classify", "done" } =>
       \A p \in Personas : persona[p].st = "done" /\ responses[p].set

\* C7, step: what one persona's query does, its failure included, leaves the
\* queries of the other two as they were, and a query that has not returned
\* still awaits a call on a model of its own chain.
C7_Independent ==
  \A p \in Personas :
    /\ (pc = "personas" /\ persona'[p] # persona[p]) =>
         \A q \in Personas \ { p } :
           /\ persona'[q] = persona[q]
           /\ responses'[q] = responses[q]
           /\ trail'[q] = trail[q]
    /\ (pc' = "personas" /\ persona'[p].st # "done") =>
         /\ persona'[p].call.model = ChainOf(p)[persona'[p].i]
         /\ persona'[p].call = trail'[p].calls[Len(trail'[p].calls)]

\* C7: the three persona queries are all launched and all awaited; the failure
\* of one never cancels, skips or shortens another; the deliberation always
\* holds a response for each of the three.
C7_AllThreeAnswer ==
  [][ C7_Independent /\ C7_AllLaunchedAllAwaited' ]_vars

\* Melchior's chain was exhausted; Balthasar's primary model failed and its
\* fallback model answered; the deliberation has returned.
C7_Witness ==
  /\ pc = "done"
  /\ responses[MELCHIOR].error
  /\ responses[MELCHIOR].content = t("coreMalfunction")
  /\ ~responses[BALTHASAR].error
  /\ responses[BALTHASAR].model = GPT_OSS_120B
  /\ ~responses[CASPER].error

\* C8, step: the image call is the first call of a deliberation with an
\* image; an extraction call is issued by the step that ends the image call,
\* or first when there is no image, or after a failed extraction call; a
\* search call is issued by the step that ends the extraction, or after a
\* failed search call; a persona call is issued only once the search has
\* returned; and deliberate() never steps back.
C8_CallsInOrder ==
  /\ PhaseRank(pc') >= PhaseRank(pc)
  /\ (hasImage /\ pc = "idle" /\ pc' # pc) => MainIssues("image")
  /\ MainIssues("image") => pc = "idle" /\ hasImage
  /\ MainIssues("extract") =>
       \/ pc = "idle" /\ ~hasImage
       \/ pc = "image" /\ main.call.op = "image"
       \/ pc = "extract" /\ main.call.op = "extract"
  /\ MainIssues("condition") => pc = "extract" /\ main.call.op = "extract"
  /\ MainIssues("search") =>
       \/ pc = "extract" /\ main.call.op \in { "extract", "condition" }
       \/ pc = "search" /\ main.call.op = "search"
  /\ PersonaIssues =>
       \/ pc = "search" /\ pc' = "personas" /\ main'.call = NoCall
       \/ pc = "personas" /\ main.call = NoCall

\* C8, state: deliberate() awaits the one call of its current step; no search
\* model has been called before the search step, and no persona model before
\* the personas step.
C8_OneStepAtATime ==
  /\ pc \in { "image", "extract", "search" } =>
       main.call.op \in ( CASE pc = "image"   -> { "image" }
                            [] pc = "extract" -> { "extract", "condition" }
                            [] OTHER          -> { "search" } )
  /\ pc \in { "idle", "image", "extract" } =>
       Range(SEARCH_MODELS) \cap DOMAIN rpmWindows = {}
  /\ pc \in { "idle", "image", "extract", "search" } =>
       \A p \in Personas : persona[p].st = "idle" /\ trail[p].calls = << >>

\* C8: the image description completes before the first extraction call, the
\* extraction before the first search call, the search before any persona
\* call.
C8_StepsInSequence == [][ C8_CallsInOrder /\ C8_OneStepAtATime' ]_vars

\* With an image: the description, the condition and the search context are
\* in, and the three personas await their first call.
C8_Witness ==
  /\ pc = "personas"
  /\ hasImage
  /\ imageContext.len > 0
  /\ approvalCondition.len > 0
  /\ search.context.len > 0
  /\ \A p \in Personas : persona[p].st = "chat" /\ Len(trail[p].calls) = 1

\* C9: no classification has started, and no classifier call has been made,
\* until each of the three persona queries has settled.
C9_ClassifyAfterAllSettled ==
  (\E p \in Personas : cls[p].st # "idle" \/ cls[p].calls # << >>) =>
    \A q \in Personas : persona[q].st = "done" /\ responses[q].set

\* Casper and Balthasar have answered while Melchior still awaits a call; no
\* classification has started.
C9_Witness ==
  /\ persona[CASPER].st = "done"
  /\ persona[BALTHASAR].st = "done"
  /\ persona[MELCHIOR].st = "chat"
  /\ \A p \in Personas : cls[p] = IdleCls

\* C10: a response with its error set gets the verdict REFUSE and no
\* classifier call; a classifier call is made only for a response without
\* error, and each such response gets one run of the data chain and the
\* verdict that run produced.
C10_ClassifyOnlyWithoutError ==
  \A p \in Personas :
    /\ (responses[p].set /\ responses[p].error) =>
         /\ cls[p].calls = << >>
         /\ cls[p].st \in { "idle", "done" }
         /\ cls[p].verdict = "REFUSE"
         /\ responses[p].verdict = "REFUSE"
    /\ cls[p].calls # << >> => responses[p].set /\ ~responses[p].error
    /\ (pc \in { "classify", "done" } /\ ~responses[p].error) =>
         cls[p].calls \in { SubSeq(DATA_MODELS, 1, n) : n \in 1..Len(DATA_MODELS) }
    /\ pc = "done" => responses[p].verdict = cls[p].verdict

\* The deliberation has returned: Melchior's response carries an error and was
\* not classified; Balthasar's was classified APPROVE by one call.
C10_Witness ==
  /\ pc = "done"
  /\ responses[MELCHIOR].error
  /\ cls[MELCHIOR].calls = << >>
  /\ responses[MELCHIOR].verdict = "REFUSE"
  /\ cls[BALTHASAR].calls = << DATA_PROCESSING_MODEL >>
  /\ responses[BALTHASAR].verdict = "APPROVE"

\* ------------------------------------------------------------------------
\* Properties of the failure handling
\* ------------------------------------------------------------------------

\* C11: classifyVerdict never throws and returns one of APPROVE, DENY,
\* CONDITIONAL, REFUSE: a classification is idle, awaiting a call or done;
\* once done after calls, every call but the last one threw, and the verdict
\* is the tag of the last reply, or REFUSE when that call threw too or its
\* reply was empty or carried no tag.
C11_ClassifierTotal ==
  \A p \in Personas :
    /\ cls[p].st \in { "idle", "chat", "done" }
    /\ cls[p].verdict \in Verdicts
    /\ responses[p].verdict \in Verdicts
    /\ (cls[p].st = "done" /\ cls[p].calls # << >>) =>
         LET rs == cls[p].results
         IN  /\ Len(rs) = Len(cls[p].calls)
             /\ \A k \in 1..(Len(rs) - 1) : rs[k].result = "threw"
             /\ cls[p].verdict =
                  IF rs[Len(rs)].result = "ok" THEN rs[Len(rs)].tag ELSE "REFUSE"

\* Both models of the data chain threw on the classification of Melchior's
\* answer: its verdict is REFUSE.
C11_Witness ==
  /\ pc = "done"
  /\ cls[MELCHIOR].calls = DATA_MODELS
  /\ \A k \in 1..2 : cls[MELCHIOR].results[k].result = "threw"
  /\ responses[MELCHIOR].verdict = "REFUSE"
  /\ ~responses[MELCHIOR].error

IsSearchCall(c) == c.op = "search"

\* The attempts of the search chain so far, with how each ended.
SearchAttempts == SelectSeq(mainTrail, IsSearchCall)

\* fetchSearchContext has returned.
SearchReturned == PhaseRank(pc) >= PhaseRank("personas")

\* What C12 says of the search whatever a successful reply holds: the chain
\* stops at the first attempt that does not throw; searchFailed is set exactly
\* when every attempt threw; a reply of NONE gives a null context.
C12_Common ==
  LET a    == SearchAttempts
      last == a[Len(a)]
  IN  /\ a # << >>
      /\ \A k \in 1..(Len(a) - 1) : a[k].result = "threw"
      /\ search.failed <=>
           (Len(a) = Len(SEARCH_MODELS) /\ last.result = "threw")
      /\ last.result = "threw" => search.context = NoText
      /\ last.result = "none" => (search.context = NoText /\ ~search.failed)

IsExtractCall(c) == c.op = "extract"

\* The attempts of the extraction chain so far, with how each ended.
ExtractAttempts == SelectSeq(mainTrail, IsExtractCall)

\* extractCondition has returned.
ExtractReturned == PhaseRank(pc) >= PhaseRank("search")

\* C13: in condition extraction a well-formed reply without a non-empty
\* CONDITION is a soft failure: while a later model remains in the chain that
\* model is attempted next, and when the later model returns a valid CONDITION
\* the extracted condition is that model's; without any valid CONDITION the
\* extracted condition is null.
C13_SoftFailureAdvances ==
  LET a == ExtractAttempts
  IN  /\ \A k \in 1..Len(a) :
           /\ a[k].model = DATA_MODELS[k]
           /\ (a[k].result = "nocond" /\ k < Len(DATA_MODELS)) =>
                \/ Len(a) > k
                \/ pc = "extract" /\ main.call = Call(DATA_MODELS[k + 1], "extract")
           /\ k < Len(a) => a[k].result \in { "nocond", "empty", "threw" }
      /\ ExtractReturned =>
           /\ a # << >>
           /\ IF a[Len(a)].result = "ok"
                THEN /\ approvalCondition.len \in 1..CONDITION_LIMIT
                     /\ approvalCondition.by = a[Len(a)].model
                ELSE /\ approvalCondition = NoText
                     /\ Len(a) = Len(DATA_MODELS)

\* The first data model answered without a CONDITION, the second with a valid
\* one, and the deliberation ended with the second model's condition.
C13_Witness ==
  /\ pc = "done"
  /\ Len(ExtractAttempts) = 2
  /\ ExtractAttempts[1].result = "nocond"
  /\ ExtractAttempts[2].result = "ok"
  /\ approvalCondition.by = DATA_MODELS[2]
  /\ approvalCondition.len > 0

\* The places deliberate() can be at: before the call, awaiting one of its
\* steps, or returned.
Phases == { "idle", "image", "extract", "search", "personas", "classify", "done" }

\* The Deliberation returned is well typed.
WellTyped ==
  /\ imageContext.len \in 0..IMAGE_DESCRIPTION_LIMIT
  /\ approvalCondition.len \in 0..CONDITION_LIMIT
  /\ search.failed \in BOOLEAN
  /\ search.failed => search.context = NoText
  /\ \A p \in Personas :
       /\ responses[p].set
       /\ responses[p].content.len > 0
       /\ responses[p].verdict \in Verdicts
       /\ responses[p].error \in BOOLEAN
       /\ responses[p].model \in Range(ChainOf(p))

\* C14: deliberate never throws because of model-call failures: whatever
\* calls fail or come back empty, it is always either awaiting a call whose
\* outcome it handles or returned, and what it returns is a well-typed
\* Deliberation.
C14_NeverThrows ==
  /\ pc \in Phases
  /\ pc \in { "image", "extract", "search" } =>
       /\ main.call # NoCall
       /\ main.call.op \in
            CASE pc = "image" -> { "image" }
              [] pc = "extract" -> { "extract", "condition" }
              [] OTHER -> { "search" }
  /\ pc = "personas" =>
       \A p \in Personas :
         \/ persona[p].st = "done" /\ responses[p].set
         \/ persona[p].st \in { "chat", "purify", "condense" }
              /\ persona[p].call # NoCall
  /\ pc = "classify" =>
       \A p \in Personas :
         \/ cls[p].st = "done"
         \/ cls[p].st = "chat" /\ cls[p].call # NoCall
  /\ pc = "done" => WellTyped

\* A deliberation on an image during a total outage: every call of every step
\* failed, and deliberate() returned with no image description, an empty
\* condition, searchFailed set and three error-flagged responses.
C14_Witness ==
  /\ pc = "done"
  /\ hasImage /\ imageContext = NoText
  /\ approvalCondition = NoText
  /\ search.failed
  /\ \A p \in Personas : responses[p].error /\ Exhausted(p)
  /\ \A k \in 1..Len(mainTrail) : mainTrail[k].result = "threw"
  /\ WellTyped

\* C15 as stated: a finished deliberation is reported as a single system-level
\* error exactly when all three personas hard-failed, each having exhausted
\* its whole chain; every other combination is rendered as a normal result.
C15_ErrorIffAllExhausted ==
  report # "" =>
    /\ report \in { "error", "result" }
    /\ report = "error" <=> \A p \in Personas : Exhausted(p)

\* The last model of persona p's chain.
LastModel(p) == ChainOf(p)[Len(ChainOf(p))]

\* C16 as stated: in every PersonaResponse returned, error is present only
\* when even the last model of the persona's chain failed.
C16_ErrorOnlyOnLastFailure ==
  \A p \in Personas :
    (responses[p].set /\ responses[p].error) =>
      LastModel(p) \in Range(trail[p].failed)

\* C16, amended: error is present exactly on the two canned responses: the
\* malfunction notice, returned only when the last model of the chain failed,
\* and the output-overflow notice, returned only when the condensation of an
\* over-long answer failed; a response carrying a model's answer never
\* carries error.
C16_ErrorOnlyOnCanned ==
  \A p \in Personas :
    responses[p].set =>
      LET r == responses[p]
          calls == trail[p].calls
      IN  /\ r.error <=> r.content.canned \in { "coreMalfunction", "outputOverflow" }
          /\ r.content.canned = "coreMalfunction" =>
               /\ LastModel(p) \in Range(trail[p].failed)
               /\ r.model = LastModel(p)
          /\ r.content.canned = "outputOverflow" =>
               /\ calls # << >>
               /\ calls[Len(calls)] = [ model |-> r.model, op |-> "condense" ]
          /\ ~r.error => (r.content.by = r.model /\ r.content.canned = "")

\* Melchior's first model answered, the condensation of its over-long answer
\* failed, and the response carries error although no model of the chain
\* failed or was skipped.
C16_Witness ==
  /\ pc = "done"
  /\ responses[MELCHIOR].error
  /\ responses[MELCHIOR].content.canned = "outputOverflow"
  /\ responses[MELCHIOR].model = ChainOf(MELCHIOR)[1]
  /\ trail[MELCHIOR].failed = << >>
  /\ trail[MELCHIOR].skipped = << >>
  /\ ~responses[BALTHASAR].error

\* ------------------------------------------------------------------------
\* Properties of the tracker
\* ------------------------------------------------------------------------

Dimensions == { "tpm", "rpm", "rpd", "tpd" }

\* The tracker holds nothing about the model.
NoData(model) ==
  /\ model \notin DOMAIN store
  /\ model \notin DOMAIN rpmWindows
  /\ model \notin DOMAIN tpdWindows

\* C17: shouldSkipModel(model) is true if and only if at least one of the
\* four dimensions reported by getLoadInfo is at or above 95; a model the
\* tracker holds no data about reads -1 on all four and is never skipped.
C17_SkipIffOverThreshold ==
  probe.read =>
    /\ probe.skip <=> \E dim \in Dimensions : probe.load[dim] >= 95
    /\ NoData(probe.model) =>
         /\ \A dim \in Dimensions : probe.load[dim] = -1
         /\ ~probe.skip

\* The model is skipped on its daily tokens alone, read at exactly 95.
C17_Witness ==
  /\ probe.read /\ probe.skip
  /\ probe.load.tpd = 95
  /\ \A dim \in Dimensions \ { "tpd" } : probe.load[dim] < 95

\* C18 as stated: after any sequence of recordModelRequest, recordModelTokens
\* and updateFromHeaders calls and any passage of time, each of the four
\* fields of getLoadInfo(model) is -1 or a percentage between 0 and 100.
C18_LoadWithinRange ==
  probe.read =>
    \A dim \in Dimensions : probe.load[dim] = -1 \/ probe.load[dim] \in 0..100

\* (limit - remaining) / limit * 100 clamped to [0,100], in whole percentages.
ClampedUsage(limit, remaining) ==
  LET used == ((limit - remaining) * 100) \div limit
  IN  IF used < 0 THEN 0 ELSE IF used > 100 THEN 100 ELSE used

\* What C19 says dimensionUsage returns.
StatedUsage(limit, remaining, resetAt, clk) ==
  IF limit = 0 THEN -1
  ELSE IF clk > resetAt THEN 0
  ELSE ClampedUsage(limit, remaining)

\* The same, with the reset honoured only when one is known.
AmendedUsage(limit, remaining, resetAt, clk) ==
  IF limit = 0 THEN -1
  ELSE IF resetAt > 0 /\ clk > resetAt THEN 0
  ELSE ClampedUsage(limit, remaining)

\* C19 as stated: for the header-based dimensions (RPD, TPM) the usage is -1
\* when no limit is known (limit = 0), 0 whenever now > resetAt regardless of
\* remaining, and otherwise (limit - remaining) / limit * 100 clamped to
\* [0,100].
C19_ExpiredWheneverPast ==
  (probe.read /\ probe.model \in DOMAIN store) =>
    LET info == store[probe.model]
    IN  /\ probe.load.rpd =
             StatedUsage(info.rpdLimit, info.rpdRemaining, info.rpdResetAt, now)
        /\ probe.load.tpm =
             StatedUsage(info.tpmLimit, info.tpmRemaining, info.tpmResetAt, now)

\* C19, amended: the usage is -1 when no limit is known (limit = 0); 0 when a
\* reset time is known (resetAt > 0) and now > resetAt, regardless of
\* remaining; and otherwise (limit - remaining) / limit * 100 clamped to
\* [0,100].
C19_ExpiredOnlyWithKnownReset ==
  (probe.read /\ probe.model \in DOMAIN store) =>
    LET info == store[probe.model]
    IN  /\ probe.load.rpd =
             AmendedUsage(info.rpdLimit, info.rpdRemaining, info.rpdResetAt, now)
        /\ probe.load.tpm =
             AmendedUsage(info.tpmLimit, info.tpmRemaining, info.tpmResetAt, now)

\* The token reset announced by the headers has passed and the request reset
\* has not: TPM reads 0 although tokens were used, RPD reads the usage.
C19_Witness ==
  /\ probe.read
  /\ probe.model \in DOMAIN store
  /\ store[probe.model].tpmResetAt > 0
  /\ now > store[probe.model].tpmResetAt
  /\ store[probe.model].tpmRemaining < store[probe.model].tpmLimit
  /\ probe.load.tpm = 0
  /\ now <= store[probe.model].rpdResetAt
  /\ probe.load.rpd = 99

\* Every request recorded for the model is at least 60 s old.
StaleRpm(model) ==
  /\ model \in DOMAIN rpmWindows
  /\ \A k \in DOMAIN rpmWindows[model] :
       now - rpmWindows[model][k] >= RPM_WINDOW_MS

\* The daily window of the model, which has a daily limit, started at least
\* 24 h ago.
StaleTpd(model) ==
  /\ model \in DOMAIN tpdWindows
  /\ MODEL_LIMITS[model].tpd # Infinity
  /\ now - tpdWindows[model].dayStart >= TPD_WINDOW_MS

\* C20: stale local windows read as 0% usage, not the last known value: when
\* every request recorded for a model is 60 s old or older getLoadInfo reports
\* RPM = 0, when 24 h have passed since the TPD window started TPD reads 0,
\* and the model is then not skipped on account of that dimension.
C20_StaleWindowsReadZero ==
  [][ (~probe.read /\ probe'.read) =>
        /\ StaleRpm(probe.model) => probe'.load.rpm = 0
        /\ StaleTpd(probe.model) => probe'.load.tpd = 0
        /\ probe'.skip =>
             \/ probe'.load.tpm >= SKIP_THRESHOLD
             \/ probe'.load.rpd >= SKIP_THRESHOLD
             \/ ~StaleRpm(probe.model) /\ probe'.load.rpm >= SKIP_THRESHOLD
             \/ ~StaleTpd(probe.model) /\ probe'.load.tpd >= SKIP_THRESHOLD
    ]_vars

\* A full window of requests and a daily accumulator at the skip threshold
\* were left alone for 24 h: the requests are pruned, both dimensions read 0
\* and the model is not skipped.
C20_Witness ==
  /\ probe.read
  /\ probe.model \in DOMAIN rpmWindows
  /\ rpmWindows[probe.model] = << >>
  /\ probe.load.rpm = 0
  /\ probe.model \in DOMAIN tpdWindows
  /\ tpdWindows[probe.model].tokens * 100 >=
       SKIP_THRESHOLD * MODEL_LIMITS[probe.model].tpd
  /\ now - tpdWindows[probe.model].dayStart >= TPD_WINDOW_MS
  /\ probe.load.tpd = 0
  /\ ~probe.skip

\* ------------------------------------------------------------------------
\* Properties of GroqClient.chat
\* ------------------------------------------------------------------------

\* The calls of chat() made so far on a model, as the callers saw them: the
\* ones that ended, and the ones in flight.
EndedCalls(c, model) ==
  SelectSeq(callers[c].log, LAMBDA e : e.model = model)
InFlight(c, model) ==
  callers[c].st \in { "fetch", "body" } /\ ModelOf(c) = model
StartTimes(c, model) ==
  [ k \in 1..Len(EndedCalls(c, model)) |-> EndedCalls(c, model)[k].at ]
    \o (IF InFlight(c, model) THEN << callers[c].startedAt >> ELSE << >>)
AllStartTimes(model) ==
  StartTimes("dataChat", model) \o StartTimes("describeImage", model)
Occurrences(seq, x) == Len(SelectSeq(seq, LAMBDA y : y = x))
WindowOf(model) ==
  IF model \in DOMAIN rpmWindows THEN rpmWindows[model] ELSE << >>

\* The requests of the last minute that count against a model: the ones
\* loaded at startup and the calls started since, whatever became of them.
CountedNow(model) ==
  Len(SelectSeq(WindowOf(model),
                LAMBDA ts : ts < StartTime /\ now - ts < RPM_WINDOW_MS))
    + Len(SelectSeq(AllStartTimes(model),
                    LAMBDA ts : now - ts < RPM_WINDOW_MS))

\* C21: every call of chat() is in its model's RPM window from the moment it
\* is issued, before the response, and stays there for a minute whether the
\* call is in flight, succeeded, failed or timed out; a load read by anyone
\* after that point counts it, and skips the model when the count reaches
\* the threshold.
C21_AttemptCountedAtIssue ==
  /\ \A model \in Range(DATA_MODELS) :
       \A k \in 1..Len(AllStartTimes(model)) :
         LET at == AllStartTimes(model)[k]
         IN  now - at < RPM_WINDOW_MS
               => Occurrences(WindowOf(model), at)
                    = Occurrences(AllStartTimes(model), at)
  /\ probe.read /\ probe.model \in DOMAIN rpmWindows
       => /\ probe.load.rpm
               = (CountedNow(probe.model) * 100)
                   \div MODEL_LIMITS[probe.model].rpm
          /\ (CountedNow(probe.model) * 100
                 >= SKIP_THRESHOLD * MODEL_LIMITS[probe.model].rpm
               => probe.skip)

\* A call in flight and a call that threw, both within the minute, push a
\* nearly full window over the threshold, and the load read sees it.
C21_Witness ==
  /\ callers["describeImage"].st = "fetch"
  /\ Len(callers["dataChat"].log) > 0
  /\ callers["dataChat"].log[1].ended = "threw"
  /\ now - callers["dataChat"].log[1].at < RPM_WINDOW_MS
  /\ probe.read
  /\ probe.skip
  /\ probe.load.rpm = 100

\* A call of chat() by caller c ends in this step, in the way given.
EndsNow(c, how) ==
  /\ Len(callers'[c].log) = Len(callers[c].log) + 1
  /\ callers'[c].log[Len(callers'[c].log)].ended = how

\* The accumulator of a model after n tokens are counted at the current
\* time: n more in a live window, a fresh window otherwise.
Accumulated(model, n) ==
  IF model \in DOMAIN tpdWindows
     /\ now - tpdWindows[model].dayStart < TPD_WINDOW_MS
    THEN [ tokens   |-> tpdWindows[model].tokens + n,
           dayStart |-> tpdWindows[model].dayStart ]
    ELSE [ tokens |-> n, dayStart |-> now ]

\* C22: the TPD accumulators change only in a step in which a call of chat()
\* returns a successful response; a call that ends with an error (error
\* status, network error, timeout, unreadable body) leaves them as they
\* were; a successful call with n tokens adds n to a live window and
\* replaces an expired one by { n, now }.
C22_TpdOnlyOnSuccess ==
  [][ /\ \A c \in Callers : EndsNow(c, "threw") => tpdWindows' = tpdWindows
      /\ \A c \in Callers :
           EndsNow(c, "ok")
             => /\ callers[c].reply.status = 200
                /\ ModelOf(c) \in DOMAIN tpdWindows'
                /\ tpdWindows'[ModelOf(c)]
                     = Accumulated(ModelOf(c), callers[c].reply.tokens)
                /\ \A m \in DOMAIN tpdWindows \ { ModelOf(c) } :
                     m \in DOMAIN tpdWindows' /\ tpdWindows'[m] = tpdWindows[m]
      /\ tpdWindows' # tpdWindows => \E c \in Callers : EndsNow(c, "ok")
    ]_vars

\* A day after the accumulator was loaded, one call got a 429 and another
\* succeeded: the accumulator is a fresh window with that call's tokens.
C22_Witness ==
  /\ Len(callers["dataChat"].log) > 0
  /\ callers["dataChat"].log[1].status = 429
  /\ callers["dataChat"].log[1].at = StartTime + TPD_WINDOW_MS
  /\ callers["describeImage"].st = "returned"
  /\ tpdWindows[DATA_PROCESSING_MODEL]
       = [ tokens |-> TokensPerCall, dayStart |-> StartTime + TPD_WINDOW_MS ]

\* The usage a snapshot reports for the daily requests, in percent.
ReportedRpd(snapshot) ==
  ((snapshot.rpdLimit - snapshot.rpdRemaining) * 100) \div snapshot.rpdLimit

FetchPhaseBounded ==
  \A c \in Callers : (callers[c].st = "fetch") ~> (callers[c].st # "fetch")

\* C24: every call of chat() is bounded by the timeout as a whole, so every
\* caller's chain eventually ends, returned or thrown, whether or not the
\* provider completes its responses.
C24_EveryChainEnds ==
  <>(\A c \in Callers : callers[c].st \in { "returned", "threw" })

\* The calls of chat() that caller c has seen end.
CallsOf(c) == { callers[c].log[k] : k \in 1..Len(callers[c].log) }

\* C25: a save that fails is not seen by anyone: every call sends its
\* request and ends as the response alone decides (returned for a readable
\* 200, thrown otherwise),
\* the caller's chain is where those endings put it, and the tracker in
\* memory holds every request, snapshot and token count although the store
\* holds none of them.
C25_SavesAreBestEffort ==
  /\ \A c \in Callers :
       /\ \A e \in CallsOf(c) :
            e.sent /\ ((e.ended = "ok") <=> (e.status = 200 /\ e.json))
       /\ callers[c].i
            = Min(Len(ModelsOf(c)),
                  1 + Cardinality({ k \in 1..Len(callers[c].log) :
                                      callers[c].log[k].ended = "threw" }))
       /\ callers[c].st = "returned"
            <=> \E e \in CallsOf(c) : e.ended = "ok"
       /\ callers[c].st = "threw"
            <=> Len(callers[c].log) = Len(ModelsOf(c))
                  /\ \A e \in CallsOf(c) : e.ended = "threw"
  /\ ~kv.up
       => /\ kv.info = EmptyMap /\ kv.rpm = EmptyMap /\ kv.tpd = EmptyMap
          /\ \A c \in Callers :
               \A e \in CallsOf(c) :
                 /\ now - e.at < RPM_WINDOW_MS
                      => Occurrences(WindowOf(e.model), e.at) > 0
                 /\ e.status # 0 => e.model \in DOMAIN store
                 /\ e.ended = "ok" => e.model \in DOMAIN tpdWindows

\* With the store failing every write, a call lost its three saves and
\* returned its result; the tracker in memory has the tokens, the store
\* has nothing.
C25_Witness ==
  /\ ~kv.up
  /\ callers["dataChat"].st = "returned"
  /\ Len(callers["dataChat"].log) = 2
  /\ callers["dataChat"].log[2].lost
  /\ callers["dataChat"].log[2].ended = "ok"
  /\ EMERGENCY_MODEL \in DOMAIN tpdWindows
  /\ tpdWindows[EMERGENCY_MODEL].tokens = TokensPerCall
  /\ kv.tpd = EmptyMap

\* The tokens of the calls on a model that were counted since a given time.
RECURSIVE TokensSince(_, _, _)
TokensSince(log, model, since) ==
  IF log = << >> THEN 0
  ELSE (IF Head(log).model = model /\ Head(log).ended = "ok"
           /\ Head(log).countedAt >= since
          THEN Head(log).tokens ELSE 0)
       + TokensSince(Tail(log), model, since)

\* C34: calls on the same model that run at the same time lose no update of
\* the tracker. When all k calls made on a model so far were started within
\* the last minute, the model's RPM window holds exactly k timestamps
\* besides the loaded ones; and the model's TPD accumulator is the sum of
\* the tokens of the successful calls counted since its window started,
\* plus what was loaded into that window.
C34_NoLostUpdates ==
  \A model \in Range(DATA_MODELS) :
    /\ (\A k \in 1..Len(AllStartTimes(model)) :
          now - AllStartTimes(model)[k] < RPM_WINDOW_MS)
         => Len(SelectSeq(WindowOf(model), LAMBDA ts : ts >= StartTime))
              = Len(AllStartTimes(model))
    /\ model \in DOMAIN tpdWindows
         => tpdWindows[model].tokens
              = (IF model = DATA_MODELS[1]
                    /\ tpdWindows[model].dayStart = StartTime
                   THEN SeedTokens ELSE 0)
                + TokensSince(callers["dataChat"].log, model,
                              tpdWindows[model].dayStart)
                + TokensSince(callers["describeImage"].log, model,
                              tpdWindows[model].dayStart)
    /\ model \notin DOMAIN tpdWindows
         => \A c \in Callers :
              \A e \in CallsOf(c) : e.model = model => e.ended # "ok"

\* A call of dataChat() and a call of describeImage() are in flight on the
\* same model at the same time, each with its response received and its
\* body still to be read: the window holds both requests, and the
\* accumulator what was loaded.
C34_Witness ==
  /\ \A c \in Callers :
       /\ callers[c].st = "body"
       /\ callers[c].reply.status = 200
       /\ ModelOf(c) = DATA_MODELS[1]
  /\ Len(SelectSeq(WindowOf(DATA_MODELS[1]), LAMBDA ts : ts >= StartTime)) = 2
  /\ tpdWindows[DATA_MODELS[1]].tokens = SeedTokens

\* ------------------------------------------------------------------------
\* Properties of the compression of the context
\* ------------------------------------------------------------------------

\* The deliberation's reply is among the messages sent.
ReplySent ==
  \E k \in 1..Len(session.replies) : session.replies[k] \in { "photo", "text" }

\* C26: in a run of handleDeliberation compressContext is not called before
\* or during the deliberation, is called at most once, only for an
\* identified user whose normal result has been sent, and has been called
\* exactly once when such a run ends.
C26_CompressedOnceAfterReply ==
  /\ session.pc \in { "idle", "context", "deliberate", "report" }
       => session.compressions = 0
  /\ session.compressions <= 1
  /\ session.compressions = 1
       => session.user /\ session.result = "normal" /\ ReplySent
  /\ session.pc = "done" /\ session.user /\ session.result = "normal"
       /\ ReplySent
       => session.compressions = 1

\* A run for an identified user has ended with its reply sent and one
\* compression made.
C26_Witness ==
  /\ session.pc = "done"
  /\ session.user
  /\ session.result = "normal"
  /\ session.replies = << "thinking", "photo" >>
  /\ session.compressions = 1

\* C27: when compressContext comes back without a summary, because every
\* data model threw or because the output was empty, the run ends with the
\* summary under the user's key as it was read at the start and with the
\* messages sent being the thinking message and the reply, nothing else.
C27_FailedCompressionKeepsSummary ==
  session.why # ""
    => /\ session.stored = session.prev
       /\ session.pc = "done"
       /\ Len(session.replies) = 2
       /\ session.replies[2] \in { "photo", "text" }

\* Both data models threw in the second run of a user whose first run had
\* stored a summary: that summary is still there.
C27_Witness ==
  /\ session.request = 2
  /\ session.why = "exhausted"
  /\ session.i = Len(DATA_MODELS)
  /\ session.prev = [ of |-> "stored", len |-> 40 ]
  /\ session.stored = session.prev
  /\ session.replies = << "thinking", "text" >>

\* ------------------------------------------------------------------------
\* Properties of the chains other than the personas'
\* ------------------------------------------------------------------------

\* shouldSkipModel(model) as the chain would read it before this step's call:
\* on the tracker the step leaves, without the request the call itself records.
SkipEligibleAtIssue(model) ==
  shouldSkipModel(store', rpmWindows, tpdWindows', model, now)

\* The classifier of persona p issues its first call in this step.
ClassifierIssues(p) == cls[p].st = "idle" /\ cls'[p].st = "chat"

\* C28 as stated: condition extraction, search-context fetching and the data
\* chain of the verdict classifier apply the router policy: a non-final model
\* of the chain for which shouldSkipModel is true is skipped without being
\* called.
C28_SkipPolicyInEveryChain ==
  [][ /\ (MainIssues("extract") /\ main'.i < Len(DATA_MODELS)) =>
           ~SkipEligibleAtIssue(main'.call.model)
      /\ (MainIssues("search") /\ main'.i < Len(SEARCH_MODELS)) =>
           ~SkipEligibleAtIssue(main'.call.model)
      /\ \A p \in Personas :
           ClassifierIssues(p) => ~SkipEligibleAtIssue(cls'[p].call.model)
    ]_vars

\* The k-th attempt of a main chain was followed by one on the next model:
\* that attempt has ended too, or its call is in flight.
MainAdvanced(attempts, k, chain, op) ==
  \/ Len(attempts) > k
  \/ pc = op /\ main.call = Call(chain[k + 1], op)

\* C29 as stated, for the three chains whose attempts are recorded with how
\* they ended: when a non-final model of the condition-extraction chain, the
\* search chain or the classifier's data chain returns an empty body, the
\* next model of that chain is attempted.
C29_EmptyAdvancesEveryChain ==
  /\ \A k \in 1..Len(ExtractAttempts) :
       (ExtractAttempts[k].result = "empty" /\ k < Len(DATA_MODELS)) =>
         MainAdvanced(ExtractAttempts, k, DATA_MODELS, "extract")
  /\ \A k \in 1..Len(SearchAttempts) :
       (SearchAttempts[k].result = "empty" /\ k < Len(SEARCH_MODELS)) =>
         MainAdvanced(SearchAttempts, k, SEARCH_MODELS, "search")
  /\ \A p \in Personas :
       \A k \in 1..Len(cls[p].results) :
         (cls[p].results[k].result = "empty" /\ k < Len(DATA_MODELS)) =>
           Len(cls[p].calls) > k

\* ------------------------------------------------------------------------
\* Properties of the length cap
\* ------------------------------------------------------------------------

\* C30: when a persona model's answer cannot be condensed under the length
\* cap the result is a soft error, not a hard fallback: the condensation is
\* the last call made for that persona, the model is not counted as failed,
\* and the response carries the canned output-overflow notice with error set
\* and the model that answered.
C30_OverflowIsSoftError ==
  \A p \in Personas :
    LET calls == trail[p].calls
        r     == responses[p]
    IN  /\ \A k \in 1..Len(calls) :
             calls[k].op = "condense" =>
               /\ k = Len(calls)
               /\ k > 1 /\ calls[k - 1].model = calls[k].model
               /\ calls[k].model \notin Range(trail[p].failed)
               /\ r.set => r.model = calls[k].model
        /\ (r.set /\ r.content.canned = "outputOverflow") =>
             /\ r.error
             /\ r.reason = "Condense failed after max attempts"
             /\ r.verdict = "REFUSE"
             /\ calls # << >>
             /\ calls[Len(calls)] = Call(r.model, "condense")
             /\ Attempts(p)[Len(Attempts(p))].model = r.model

\* Casper's first model was skipped, the second answered over the cap and
\* its condensation failed: the response is the overflow notice of the second
\* model and the last model of the chain was never called.
C30_Witness ==
  /\ pc = "done"
  /\ trail[CASPER].skipped = << ChainOf(CASPER)[1] >>
  /\ trail[CASPER].calls = << Call(ChainOf(CASPER)[2], "persona"),
                              Call(ChainOf(CASPER)[2], "condense") >>
  /\ responses[CASPER].content.canned = "outputOverflow"
  /\ responses[CASPER].error
  /\ responses[CASPER].model = ChainOf(CASPER)[2]
  /\ LastModel(CASPER) \notin Called(CASPER)

\* ------------------------------------------------------------------------
\* Properties of the post-processing of a persona's answer
\* ------------------------------------------------------------------------

\* The purification call of persona p ends in this step without a text: the
\* reply was one of the failing ones (none of the texts a purification sends
\* back is mixed, and the only other one that is not expected is over the
\* cap and is condensed).
PurificationFails(p) ==
  /\ persona[p].st = "purify"
  /\ persona'[p].st # "purify"
  /\ deviations' > deviations
  /\ persona'[p].st = "condense" => persona'[p].final.mixed

\* C31: once a persona's model has answered, the calls that follow are at
\* most one purification and then at most one condensation, each on the
\* model of the call before it, and no further persona call; the markup is
\* stripped last, so a returned answer holds none; a purification that
\* fails leaves the answer as it was (still mixed, passed on to the length
\* cap and the stripping) and the model is not counted as failed.
C31_PostProcessingOrder ==
  [][ \A p \in Personas :
        LET calls == trail'[p].calls
            r     == responses'[p]
        IN  /\ \A k \in 1..Len(calls) :
                 /\ calls[k].op = "purify"
                      => /\ k > 1
                         /\ calls[k - 1] = Call(calls[k].model, "persona")
                         /\ \A j \in (k + 1)..Len(calls) :
                              calls[j].op = "condense"
                 /\ calls[k].op = "condense"
                      => /\ k > 1
                         /\ calls[k - 1].model = calls[k].model
                         /\ calls[k - 1].op \in { "persona", "purify" }
                         /\ k = Len(calls)
            /\ r.set /\ ~r.error => r.content.mk = 0
            /\ PurificationFails(p)
                 => /\ trail'[p].failed = trail[p].failed
                    /\ persona'[p].i = persona[p].i
                    /\ IF persona[p].final.len > CHAR_LIMIT
                         THEN /\ persona'[p].st = "condense"
                              /\ persona'[p].final = persona[p].final
                              /\ persona'[p].call
                                   = Call(persona[p].call.model, "condense")
                         ELSE /\ persona'[p].st = "done"
                              /\ ~r.error
                              /\ r.model = persona[p].call.model
                              /\ r.content.mixed
                              /\ r.content.len
                                   = persona[p].final.len - persona[p].final.mk
    ]_vars

\* Melchior's model answered in mixed language within the cap, its
\* purification failed, and the answer was returned unpurified, stripped of
\* its markup, by the same model.
C31_Witness ==
  /\ Len(trail[MELCHIOR].calls) >= 2
  /\ trail[MELCHIOR].calls[Len(trail[MELCHIOR].calls)].op = "purify"
  /\ responses[MELCHIOR].set
  /\ ~responses[MELCHIOR].error
  /\ responses[MELCHIOR].content.mixed
  /\ responses[MELCHIOR].content.mk = 0
  /\ responses[MELCHIOR].model
       = trail[MELCHIOR].calls[Len(trail[MELCHIOR].calls)].model

\* C32: a persona response without an error holds at most CHAR_LIMIT
\* characters, whether the answer, its purification or its condensation
\* came back within the cap or over it.
C32_ReturnedWithinCap ==
  \A p \in Personas :
    responses[p].set /\ ~responses[p].error
      => responses[p].content.len <= CHAR_LIMIT

\* Nothing but Melchior's two calls deviated: the answer came back over the
\* cap and so did its condensation, and the response holds the cut text.
C32_Witness ==
  /\ pc = "personas"
  /\ ~hasImage
  /\ down = {}
  /\ Len(mainTrail) = 2
  /\ \A k \in 1..2 : mainTrail[k].result = "ok"
  /\ deviations = 2
  /\ trail[MELCHIOR].calls = << Call(ChainOf(MELCHIOR)[1], "persona"),
                                Call(ChainOf(MELCHIOR)[1], "condense") >>
  /\ responses[MELCHIOR].set
  /\ ~responses[MELCHIOR].error
  /\ responses[MELCHIOR].content.len <= CHAR_LIMIT
  /\ \A p \in Personas \ { MELCHIOR } :
       ~responses[p].set /\ Len(trail[p].calls) = 1

\* ------------------------------------------------------------------------
\* Properties of the extracted condition
\* ------------------------------------------------------------------------

\* The condensations of the condition made so far, with how each ended.
ConditionCalls ==
  SelectSeq(mainTrail, LAMBDA e : e.op = "condition")

\* C33: the approval condition never holds more than CONDITION_LIMIT
\* characters. A condition extracted over the limit is condensed by one call
\* on the model that extracted it; when that call fails or comes back empty
\* the condition is the extracted one cut to CONDITION_LIMIT - 1 characters
\* plus the ellipsis, and otherwise it is what the call returned, cut the
\* same way if still over the limit.
C33_ConditionWithinBudget ==
  /\ approvalCondition.len <= CONDITION_LIMIT
  /\ Len(ConditionCalls) <= 1
  /\ \A k \in 1..Len(mainTrail) :
       mainTrail[k].op = "condition"
         => /\ k > 1
            /\ mainTrail[k - 1].op = "extract"
            /\ mainTrail[k - 1].model = mainTrail[k].model
            /\ mainTrail[k - 1].result = "ok"
            /\ approvalCondition.len > 0
            /\ mainTrail[k].result \in { "threw", "empty" }
                 => approvalCondition.len = (CONDITION_LIMIT - 1) + 1

\* The first data model extracted a condition over the limit and the call
\* that should have condensed it threw: the condition is the cut one.
C33_Witness ==
  /\ Len(mainTrail) >= 2
  /\ mainTrail[1] = [ model |-> DATA_MODELS[1], op |-> "extract",
                      result |-> "ok" ]
  /\ mainTrail[2] = [ model |-> DATA_MODELS[1], op |-> "condition",
                      result |-> "threw" ]
  /\ approvalCondition.len = CONDITION_LIMIT


\* ------------------------------------------------------------------------
\* Properties of updateFromHeaders
\* ------------------------------------------------------------------------

\* The models whose TPM snapshot is known.
TpmKnown(st) == { m \in DOMAIN st : st[m].tpmLimit > 0 }

\* C35: updateFromHeaders overwrites the snapshot whenever usage headers are
\* present: a response carrying the token headers leaves the TPM fields of
\* the model at those headers' values, request headers or not, and a response
\* carrying only request headers does not erase a TPM limit known before.
C35_UsageHeadersOverwrite ==
  [][ \A headers \in HeaderSets :
        HeadersReceived(headers) =>
          /\ "limit-tokens" \in DOMAIN headers =>
               /\ probe.model \in DOMAIN store'
               /\ store'[probe.model].tpmLimit = headers["limit-tokens"]
               /\ store'[probe.model].tpmRemaining = headers["remaining-tokens"]
          /\ ("limit-tokens" \notin DOMAIN headers
                /\ probe.model \in TpmKnown(store))
               => store'[probe.model].tpmLimit = store[probe.model].tpmLimit ]_vars


\* ------------------------------------------------------------------------
\* Properties of handleDeliberation for one user
\* ------------------------------------------------------------------------

\* The run has sent the result of a deliberation that did not fail.
ReportedNormal(r) ==
  \E k \in 1..Len(requests[r].replies) : requests[r].replies[k] = "result"

\* C36: the thinking message sent at the start of a request is deleted on
\* every way out of handleDeliberation after it was sent: the normal result,
\* the error message for three failed personas, and an exception.
C36_ThinkingAlwaysDeleted ==
  \A r \in Runs : requests[r].pc = "done" => ~requests[r].thinking

\* The steps of a run whose three personas failed, from the return of
\* deliberate() on.
AllFailedStep(r) ==
  /\ requests'[r] # requests[r]
  /\ requests'[r].result = "allFailed"

\* C37, as the code has it: a deliberation whose three personas failed
\* leaves the cooldown timestamp, the query counter and the stored context
\* summary as they were, and never reaches the compressor; the language of
\* the result is still saved as the user's detected language.
C37_AllFailedRecordsNothing ==
  [][ \A r \in Runs :
        AllFailedStep(r) =>
          /\ userData'.lastRequest = userData.lastRequest
          /\ userData'.queryCount = userData.queryCount
          /\ userData'.context = userData.context
          /\ requests'[r].pc \in { "pref", "done" } ]_vars

\* A run whose three personas failed has ended with the error message and
\* has saved the language it resolved; no timestamp and no count were
\* recorded, and the user's next request, arriving at once, is accepted.
C37_Witness ==
  \E r \in Runs, q \in Runs :
    /\ requests[r].result = "allFailed"
    /\ requests[r].pc = "done"
    /\ requests[r].replies = << "thinking", "error" >>
    /\ requests[r].pref.detectedLang = "en"
    /\ userData.pref.detectedLang = "ja"
    /\ userData.lastRequest = 0
    /\ userData.queryCount = 0
    /\ userData.context = [ of |-> "stored", len |-> 300 ]
    /\ requests[q].pc = "context"
    /\ requests[q].pref.detectedLang = "ja"
    /\ now = StartTime

\* C37, as stated: a deliberation whose three personas failed has no lasting
\* effect on the user's state.
C37_AllFailedLeavesUserState ==
  [][ \A r \in Runs :
        AllFailedStep(r) =>
          /\ userData' = userData
          /\ requests'[r].pc \in { "pref", "done" } ]_vars

MainCalls(op) == SelectSeq(mainTrail, LAMBDA e : e.op = op)

\* describeImage()'s call has been made and gave no description.
ImageFailed ==
  \E k \in 1..Len(MainCalls("image")) :
    MainCalls("image")[k].result \in { "threw", "empty" }

\* extractCondition has tried every data model, and each threw, answered
\* nothing or left CONDITION out.
NoConditionFound ==
  /\ Len(MainCalls("extract")) = Len(DATA_MODELS)
  /\ \A k \in 1..Len(MainCalls("extract")) :
       MainCalls("extract")[k].result \in { "threw", "empty", "nocond" }

\* C39: a failure of the early steps never aborts the deliberation. After a
\* failed image description the image context is null, after an extraction
\* that found no condition the approval condition is the empty string, and
\* in both cases the deliberation goes on: the search has been attempted
\* before the personas are queried, all three personas have returned before
\* the classification, all three are classified before the result, and
\* until the personas are queried a call of the next step is awaited.
C39_EarlyFailuresDoNotAbort ==
  /\ ImageFailed => imageContext = NoText
  /\ NoConditionFound => approvalCondition = NoText
  /\ (ImageFailed \/ NoConditionFound) =>
       /\ pc \in { "extract", "search", "personas", "classify", "done" }
       /\ pc \in { "personas", "classify", "done" } => Len(MainCalls("search")) > 0
       /\ pc \in { "classify", "done" } => \A p \in Personas : responses[p].set
       /\ pc = "done" => \A p \in Personas : cls[p].st = "done"
       /\ pc \in { "extract", "search" } =>
            main.call.op \in { "extract", "condition", "search" }

\* A deliberation on an image has ended although the image could not be
\* described and no data model gave a condition: a persona answered and its
\* answer was classified.
C39_Witness ==
  /\ pc = "done"
  /\ hasImage /\ ImageFailed /\ NoConditionFound
  /\ imageContext = NoText /\ approvalCondition = NoText
  /\ \E p \in Personas : ~responses[p].error /\ Len(cls[p].calls) > 0


\* ------------------------------------------------------------------------
\* Properties of the saves in flight
\* ------------------------------------------------------------------------

\* C40: once every save in flight has settled, what is persisted for a model
\* is what recordModelRequest and recordModelTokens last wrote in memory: its
\* RPM window and its TPD accumulator, in whatever order the saves settled.
C40_SavesConverge ==
  pending = {} =>
    /\ \A model \in DOMAIN rpmWindows :
         model \in DOMAIN kv.rpm /\ kv.rpm[model] = rpmWindows[model]
    /\ \A model \in DOMAIN tpdWindows :
         model \in DOMAIN kv.tpd /\ kv.tpd[model] = tpdWindows[model]

====
